---- MODULE Spec2Model ----
(***************************************************************************)
(* The two-venue arbitrage execution engine: PriceBoard (DataBuffer.py),   *)
(* the market-feed callbacks (Market_data.py), the user-stream normalizer  *)
(* (main.py), the startup reconciler (trade_engine.py) and the             *)
(* StrategyStateMachine (Simple_strategy.py), together with the two venues *)
(* the engine talks to.                                                    *)
(*                                                                         *)
(* Units.  Quantities are integers in units of 0.0001 (base_quantity 0.001 *)
(* is 10).  Prices are integers in units of 0.01.                          *)
(*                                                                         *)
(* Time.  Time is in seconds and every timestamp is kept relative to the   *)
(* current time: time.time() reads 0 (the definition `now`), a timestamp   *)
(* taken k seconds ago reads -k, and the action Advance (one second        *)
(* passes) lowers every stored timestamp by one.  The code only ever       *)
(* compares now - timestamp with max_delay_seconds or order_timeout_sec,   *)
(* so a timestamp older than the threshold it is compared with is kept at  *)
(* threshold + 1 seconds of age: all such ages behave alike.               *)
(* The tolerances of the code (1e-6, 1e-5, 1e-8) are below one unit, so    *)
(* "|a - b| <= 1e-6" is a = b and "x <= 1e-5" is x <= 0 on these integers. *)
(***************************************************************************)
EXTENDS Integers, Sequences, FiniteSets, TLC

\* ------------------------------------------------------------------ bounds
MaxOrders == 2

\* ------------------------------------------------------- program constants
base_quantity == 10
order_timeout_sec == 5
max_chase_retries == 3
max_delay_seconds == 1
QtyStep == 10
PriceStep == 1
binance_maker_fee == 2
binance_taker_fee == 4
hyper_maker_fee == 2
hyper_taker_fee == 4
FeeScale == 10000
MIN_SPREAD_THRESHOLD == 0
ChaseAdjScale == 1000

None == "None"
NoPrice == 0

Binance == "Binance"
Hyperliquid == "Hyperliquid"
Exchanges == {Binance, Hyperliquid}

\* StrategyState
OpenCondition == "OpenCondition"
CloseCondition == "CloseCondition"
OpenLeg1Waiting == "OpenLeg1Waiting"
OpenLeg1Canceling == "OpenLeg1Canceling"
OpenLeg2Waiting == "OpenLeg2Waiting"
OpenLeg2Chasing == "OpenLeg2Chasing"
CloseLeg1Waiting == "CloseLeg1Waiting"
CloseLeg1Canceling == "CloseLeg1Canceling"
CloseLeg2Waiting == "CloseLeg2Waiting"
CloseLeg2Chasing == "CloseLeg2Chasing"

ConditionStates == {OpenCondition, CloseCondition}
Leg1States == {OpenLeg1Waiting, OpenLeg1Canceling, CloseLeg1Waiting, CloseLeg1Canceling}
Leg2States == {OpenLeg2Waiting, OpenLeg2Chasing, CloseLeg2Waiting, CloseLeg2Chasing}
LegStates == Leg1States \cup Leg2States

\* The order ids the venues hand out, in order of placement (str(orderId)).
OrderIdOf(n) == <<"o1", "o2", "o3", "o4", "o5", "o6">>[n]

\* ------------------------------------------------------------ environment
\* Top-of-book ticks the venues can publish (bid, ask in 0.01).  An empty side
\* is bid = 0 or ask = 0 in the tick (book.bids / book.asks empty).
BinanceBooks ==
    { [bid |-> 6000, ask |-> 6001, empty |-> FALSE],
      [bid |-> 6027, ask |-> 6028, empty |-> FALSE],
      [bid |-> 6000, ask |-> 0, empty |-> TRUE] }
HyperBooks ==
    { [bid |-> 6010, ask |-> 6011, empty |-> FALSE] }

\* Cumulative fills a resting order can report before it is complete.
PartialQtys == {4, 6}

VARIABLES
    sm,            \* the StrategyStateMachine's fields
    prices,        \* price_board.prices: exchange -> Ticker
    orders,        \* the orders the venues accepted, by placement order
    events,        \* exchange -> user-stream events not yet delivered
    cancel_reqs,   \* cancel requests sent (_send_cancel threads) and not yet served
    pc,            \* position of the Binance market-feed thread
    started,       \* "boot", "running" or "refused" (startup reconciler)
    last_call      \* the last call made on the machine and what it did

vars == <<sm, prices, orders, events, cancel_reqs, pc, started, last_call>>

\* time.time()
now == 0
\* The oldest age a ticker timestamp / an order timestamp is kept at.
TickerHorizon == max_delay_seconds + 1
OrderHorizon == order_timeout_sec + 1
Older(timestamp, horizon) ==
    IF timestamp - 1 < now - horizon THEN now - horizon ELSE timestamp - 1

\* ------------------------------------------------------ helper functions
\* round(float(value), decimals) on a value given in `scale`-ths of a unit of
\* the result: to the nearest unit, a tie going to the even unit.
RoundDiv(value, scale) ==
    LET q == value \div scale
        r == value % scale
    IN  IF 2 * r > scale THEN q + 1
        ELSE IF 2 * r < scale THEN q
        ELSE IF q % 2 = 0 THEN q ELSE q + 1

\* _round_precision on a quantity: the binary doubles of k * 0.0001 at a tie
\* (5, 15, 25 units) lie above the tie, so Python's round goes up there.
\* Both venues have 3 decimals for quantities.
round_qty(qty, exchange) ==
    ((qty + (QtyStep \div 2)) \div QtyStep) * QtyStep

\* _round_price of a raw price given in 1/scale of 0.01.
round_price(raw, scale, exchange) ==
    RoundDiv(raw, scale * PriceStep) * PriceStep

\* _extract_order_id: (order_id, success) of a placement response.
\* A response is [kind, orderId]: kind "none" is no response, "error" a
\* response carrying "error", "ok" one carrying the venue's order id.
extract_order_id(response, exchange) ==
    IF response.kind = "none" THEN [order_id |-> None, success |-> FALSE]
    ELSE IF response.kind = "error" THEN [order_id |-> None, success |-> FALSE]
    ELSE [order_id |-> response.orderId, success |-> TRUE]

\* ------------------------------------------------------------ PriceBoard
\* Ticker(): timestamp 0.0 is the epoch, older than every threshold.
Ticker0 == [bid_price |-> 0, ask_price |-> 0, timestamp |-> now - TickerHorizon]

update(pb, exchange, bid, ask, t) ==
    [pb EXCEPT ![exchange] = [bid_price |-> bid, ask_price |-> ask, timestamp |-> t]]

\* DataBuffer.push_neworder_book: the top of a book with both sides present
\* goes to the board; book.empty says that a side of the book is missing.
push_neworder_book(pb, exchange, book, t) ==
    IF book.empty THEN pb
    ELSE update(pb, exchange, book.bid, book.ask, t)

\* A freshness test that rejects a ticker as soon as it is max_delay old.
Fresh_before_max_delay(ticker, t) ==
    ~(ticker.bid_price = 0 \/ (t - ticker.timestamp) >= max_delay_seconds)

Fresh(ticker, t) ==
    ~(ticker.bid_price = 0 \/ (t - ticker.timestamp) > max_delay_seconds)

\* get_price: NoPrice stands for None.
get_price(pb, exchange, side, t) ==
    IF ~Fresh(pb[exchange], t) THEN NoPrice
    ELSE IF side = "bid" THEN pb[exchange].bid_price
    ELSE pb[exchange].ask_price

\* A validity test that looks at the prices and not at their age.
SpreadValid_any_age(pb, t) ==
    /\ pb[Binance].bid_price # 0
    /\ pb[Hyperliquid].bid_price # 0

SpreadValid(pb, t) ==
    /\ pb[Binance].bid_price # 0
    /\ pb[Hyperliquid].bid_price # 0
    /\ ~((t - pb[Binance].timestamp) > max_delay_seconds)
    /\ ~((t - pb[Hyperliquid].timestamp) > max_delay_seconds)

\* get_spread: [valid, a, b]; valid = FALSE stands for (None, None).
get_spread(pb, t) ==
    IF ~SpreadValid(pb, t) THEN [valid |-> FALSE, a |-> 0, b |-> 0]
    ELSE [valid |-> TRUE,
          a |-> pb[Hyperliquid].bid_price - pb[Binance].ask_price,
          b |-> pb[Binance].bid_price - pb[Hyperliquid].ask_price]

\* A net spread with the fees on the wrong side: revenue raised by the
\* maker fee, cost lowered by the taker fee.
get_spread_with_fees_rebated(pb, t) ==
    IF ~SpreadValid(pb, t) THEN [valid |-> FALSE, a |-> 0, b |-> 0]
    ELSE [valid |-> TRUE,
          a |-> pb[Hyperliquid].bid_price * (FeeScale + hyper_maker_fee)
                - pb[Binance].ask_price * (FeeScale - binance_taker_fee),
          b |-> pb[Binance].bid_price * (FeeScale + binance_maker_fee)
                - pb[Hyperliquid].ask_price * (FeeScale - hyper_taker_fee)]

\* get_spread_with_fees, scaled by FeeScale.
get_spread_with_fees(pb, t) ==
    IF ~SpreadValid(pb, t) THEN [valid |-> FALSE, a |-> 0, b |-> 0]
    ELSE [valid |-> TRUE,
          a |-> pb[Hyperliquid].bid_price * (FeeScale - hyper_maker_fee)
                - pb[Binance].ask_price * (FeeScale + binance_taker_fee),
          b |-> pb[Binance].bid_price * (FeeScale - binance_maker_fee)
                - pb[Hyperliquid].ask_price * (FeeScale + hyper_taker_fee)]

open_signal(pb, t) ==
    LET s == get_spread_with_fees(pb, t)
    IN  s.valid /\ s.a > MIN_SPREAD_THRESHOLD * FeeScale

close_signal(pb, t) ==
    LET s == get_spread_with_fees(pb, t)
    IN  s.valid /\ s.b > MIN_SPREAD_THRESHOLD * FeeScale

\* ------------------------------------------------ StrategyStateMachine
\* The operators below work on a record w = [sm, orders, cancel_reqs, log]:
\* the machine's fields, the venues' orders, the cancel requests in flight
\* and the log of what the current call did.
DictGet(d, k, default) == IF k \in DOMAIN d THEN d[k] ELSE default
DictPut(d, k, v) == [x \in (DOMAIN d) \cup {k} |-> IF x = k THEN v ELSE d[x]]

EmptyLog == [placed |-> <<>>, chase |-> <<>>, cancels |-> {}]

update_state(w, new_state) == [w EXCEPT !.sm.current_state = new_state]

\* TradeExecutor.place_order with async_exec = False: the venue accepts the
\* order (ok) and answers with its id, or answers with an error.
place_order(w, exchange, side, quantity, price, ok) ==
    LET oid == OrderIdOf(Len(w.orders) + 1)
        req == [exchange |-> exchange, side |-> side, quantity |-> quantity,
                price |-> price, ok |-> ok]
        w1 == [w EXCEPT !.log.placed = Append(@, req)]
    IN  IF ok
        THEN [w |-> [w1 EXCEPT !.orders = Append(@,
                        [oid |-> oid, exchange |-> exchange, side |-> side,
                         qty |-> quantity, price |-> price,
                         status |-> "live", cum |-> 0])],
              response |-> [kind |-> "ok", orderId |-> oid]]
        ELSE [w |-> w1, response |-> [kind |-> "error", orderId |-> None]]

\* threading.Thread(target=self._send_cancel, args=(exchange, order_id)).start()
send_cancel(w, exchange, order_id) ==
    [w EXCEPT !.cancel_reqs = @ \cup {<<exchange, order_id>>},
              !.log.cancels = @ \cup {<<exchange, order_id>>}]

\* A chase step whose price offset is 0.001 * chase_retry_count instead of
\* 0.001 * (chase_retry_count + 1): the ladder the code does not implement.
chase_step_offset_by_count(w, exchange, side, qty, ok, pb, t) ==
    LET ticker_side == IF side = "SELL" THEN "bid" ELSE "ask"
        market_price == get_price(pb, exchange, ticker_side, t)
        qty_rounded == round_qty(qty, exchange)
        count == w.sm.chase_retry_count
        adj == count
        price_raw == IF side = "SELL"
                     THEN market_price * (ChaseAdjScale - adj)
                     ELSE market_price * (ChaseAdjScale + adj)
        price == IF market_price = NoPrice THEN NoPrice
                 ELSE IF count < max_chase_retries
                      THEN round_price(price_raw, ChaseAdjScale, exchange)
                 ELSE NoPrice
        p == place_order(w, exchange, side, qty_rounded, price, ok)
        r == extract_order_id(p.response, exchange)
        w2 == IF r.success /\ r.order_id # None
              THEN [p.w EXCEPT !.sm.active_order_id = r.order_id,
                               !.sm.active_order_time = t,
                               !.sm.chase_retry_count = @ + 1,
                               !.sm.last_cum_filled_qty = DictPut(@, r.order_id, 0)]
              ELSE p.w
        rec == [side |-> side, qty |-> qty, market_price |-> market_price,
                count |-> count, price |-> price, quantity |-> qty_rounded,
                success |-> r.success, before |-> w.sm, after |-> w2.sm]
    IN  IF qty_rounded <= 0 THEN w
        ELSE [w2 EXCEPT !.log.chase = Append(@, rec)]

\* A chase step that clears active_order_id when the placement yields no id.
chase_step_clearing_on_failure(w, exchange, side, qty, ok, pb, t) ==
    LET ticker_side == IF side = "SELL" THEN "bid" ELSE "ask"
        market_price == get_price(pb, exchange, ticker_side, t)
        qty_rounded == round_qty(qty, exchange)
        count == w.sm.chase_retry_count
        adj == count + 1
        price_raw == IF side = "SELL"
                     THEN market_price * (ChaseAdjScale - adj)
                     ELSE market_price * (ChaseAdjScale + adj)
        price == IF market_price = NoPrice THEN NoPrice
                 ELSE IF count < max_chase_retries
                      THEN round_price(price_raw, ChaseAdjScale, exchange)
                 ELSE NoPrice
        p == place_order(w, exchange, side, qty_rounded, price, ok)
        r == extract_order_id(p.response, exchange)
        w2 == IF r.success /\ r.order_id # None
              THEN [p.w EXCEPT !.sm.active_order_id = r.order_id,
                               !.sm.active_order_time = t,
                               !.sm.chase_retry_count = @ + 1,
                               !.sm.last_cum_filled_qty = DictPut(@, r.order_id, 0)]
              ELSE [p.w EXCEPT !.sm.active_order_id = None]
        rec == [side |-> side, qty |-> qty, market_price |-> market_price,
                count |-> count, price |-> price, quantity |-> qty_rounded,
                success |-> r.success, before |-> w.sm, after |-> w2.sm]
    IN  IF qty_rounded <= 0 THEN w
        ELSE [w2 EXCEPT !.log.chase = Append(@, rec)]

\* _execute_leg2_chase_step
execute_leg2_chase_step(w, exchange, side, qty, ok, pb, t) ==
    LET ticker_side == IF side = "SELL" THEN "bid" ELSE "ask"
        market_price == get_price(pb, exchange, ticker_side, t)
        qty_rounded == round_qty(qty, exchange)
        count == w.sm.chase_retry_count
        adj == count + 1
        price_raw == IF side = "SELL"
                     THEN market_price * (ChaseAdjScale - adj)
                     ELSE market_price * (ChaseAdjScale + adj)
        price == IF market_price = NoPrice THEN NoPrice
                 ELSE IF count < max_chase_retries
                      THEN round_price(price_raw, ChaseAdjScale, exchange)
                 ELSE NoPrice
        p == place_order(w, exchange, side, qty_rounded, price, ok)
        r == extract_order_id(p.response, exchange)
        w2 == IF r.success /\ r.order_id # None
              THEN [p.w EXCEPT !.sm.active_order_id = r.order_id,
                               !.sm.active_order_time = t,
                               !.sm.chase_retry_count = @ + 1,
                               !.sm.last_cum_filled_qty = DictPut(@, r.order_id, 0)]
              ELSE p.w
        rec == [side |-> side, qty |-> qty, market_price |-> market_price,
                count |-> count, price |-> price, quantity |-> qty_rounded,
                success |-> r.success, before |-> w.sm, after |-> w2.sm]
    IN  IF qty_rounded <= 0 THEN w
        ELSE [w2 EXCEPT !.log.chase = Append(@, rec)]

\* A Leg-2 start that books base_quantity as already hedged.
start_leg2_open_prefilled(w, initial, qty, ok, pb, t) ==
    LET w1 == IF initial
              THEN update_state([w EXCEPT !.sm.chase_retry_count = 0,
                                          !.sm.leg2_filled_qty = base_quantity],
                                OpenLeg2Waiting)
              ELSE update_state(w, OpenLeg2Chasing)
    IN  execute_leg2_chase_step(w1, Binance, "SELL", qty, ok, pb, t)

\* _start_leg2_open
start_leg2_open(w, initial, qty, ok, pb, t) ==
    LET w1 == IF initial
              THEN update_state([w EXCEPT !.sm.chase_retry_count = 0,
                                          !.sm.leg2_filled_qty = 0],
                                OpenLeg2Waiting)
              ELSE update_state(w, OpenLeg2Chasing)
    IN  execute_leg2_chase_step(w1, Binance, "SELL", qty, ok, pb, t)

\* A _start_leg2_close that hedges on the same side as _start_leg2_open.
start_leg2_close_selling(w, initial, qty, ok, pb, t) ==
    LET w1 == IF initial
              THEN update_state([w EXCEPT !.sm.chase_retry_count = 0,
                                          !.sm.leg2_filled_qty = 0],
                                CloseLeg2Waiting)
              ELSE update_state(w, CloseLeg2Chasing)
    IN  execute_leg2_chase_step(w1, Binance, "SELL", qty, ok, pb, t)

\* _start_leg2_close
start_leg2_close(w, initial, qty, ok, pb, t) ==
    LET w1 == IF initial
              THEN update_state([w EXCEPT !.sm.chase_retry_count = 0,
                                          !.sm.leg2_filled_qty = 0],
                                CloseLeg2Waiting)
              ELSE update_state(w, CloseLeg2Chasing)
    IN  execute_leg2_chase_step(w1, Binance, "BUY", qty, ok, pb, t)

\* self.active_order_id = None
ClearActive(w) == [w EXCEPT !.sm.active_order_id = None]

\* A sweep that gives a timed-out Leg-1 order up at once: it sends the cancel
\* and returns to the Condition state without waiting for the venue's answer.
on_tick_check_abandoning(w, t) ==
    LET state == w.sm.current_state
        timed_out == t - w.sm.active_order_time > order_timeout_sec
    IN  IF w.sm.active_order_id = None THEN w
        ELSE IF state \in {OpenLeg1Waiting, CloseLeg1Waiting}
        THEN IF timed_out
             THEN ClearActive(send_cancel(
                      update_state(w, IF state = OpenLeg1Waiting
                                      THEN OpenCondition
                                      ELSE CloseCondition),
                      Hyperliquid, w.sm.active_order_id))
             ELSE w
        ELSE w

\* A sweep that fires as soon as the order is order_timeout_sec old
\* (>= where the code has >).
on_tick_check_at_timeout(w, t) ==
    LET state == w.sm.current_state
        timed_out == t - w.sm.active_order_time >= order_timeout_sec
    IN  IF w.sm.active_order_id = None THEN w
        ELSE IF state \in {OpenLeg1Waiting, CloseLeg1Waiting}
        THEN IF timed_out
             THEN send_cancel(
                      update_state(w, IF state = OpenLeg1Waiting
                                      THEN OpenLeg1Canceling
                                      ELSE CloseLeg1Canceling),
                      Hyperliquid, w.sm.active_order_id)
             ELSE w
        ELSE IF state \in {OpenLeg2Waiting, OpenLeg2Chasing,
                           CloseLeg2Waiting, CloseLeg2Chasing}
        THEN IF timed_out
             THEN send_cancel(w, Binance, w.sm.active_order_id)
             ELSE w
        ELSE w

\* A sweep that, on a Leg-2 timeout, also moves the machine to the Chasing
\* state itself instead of leaving that to the order's terminal event.
on_tick_check_chasing(w, t) ==
    LET state == w.sm.current_state
        timed_out == t - w.sm.active_order_time > order_timeout_sec
    IN  IF w.sm.active_order_id = None THEN w
        ELSE IF state \in {OpenLeg1Waiting, CloseLeg1Waiting}
        THEN IF timed_out
             THEN send_cancel(
                      update_state(w, IF state = OpenLeg1Waiting
                                      THEN OpenLeg1Canceling
                                      ELSE CloseLeg1Canceling),
                      Hyperliquid, w.sm.active_order_id)
             ELSE w
        ELSE IF state \in {OpenLeg2Waiting, OpenLeg2Chasing,
                           CloseLeg2Waiting, CloseLeg2Chasing}
        THEN IF timed_out
             THEN send_cancel(
                      update_state(w, IF state \in {OpenLeg2Waiting, OpenLeg2Chasing}
                                      THEN OpenLeg2Chasing
                                      ELSE CloseLeg2Chasing),
                      Binance, w.sm.active_order_id)
             ELSE w
        ELSE w

\* on_tick_check, under the lock
on_tick_check(w, t) ==
    LET state == w.sm.current_state
        timed_out == t - w.sm.active_order_time > order_timeout_sec
    IN  IF w.sm.active_order_id = None THEN w
        ELSE IF state \in {OpenLeg1Waiting, CloseLeg1Waiting}
        THEN IF timed_out
             THEN send_cancel(
                      update_state(w, IF state = OpenLeg1Waiting
                                      THEN OpenLeg1Canceling
                                      ELSE CloseLeg1Canceling),
                      Hyperliquid, w.sm.active_order_id)
             ELSE w
        ELSE IF state \in {OpenLeg2Waiting, OpenLeg2Chasing,
                           CloseLeg2Waiting, CloseLeg2Chasing}
        THEN IF timed_out
             THEN send_cancel(w, Binance, w.sm.active_order_id)
             ELSE w
        ELSE w

\* The branches of on_order_update_logic, one per state group.  w0 is the
\* machine after the increment bookkeeping (last_cum_filled_qty updated).
\* An OpenLeg1Waiting branch that books a DEX buy fill as a sale.
OpenLeg1WaitingEvent_selling(w0, event_type, order_id, filled_qty, inc, ok, pb, t) ==
    IF event_type = "ALL_traded"
    THEN LET w1 == [w0 EXCEPT !.sm.leg1_filled_qty = filled_qty,
                              !.sm.current_position = @ - inc]
         IN  ClearActive(start_leg2_open(w1, TRUE, w1.sm.leg1_filled_qty, ok, pb, t))
    ELSE IF event_type = "PARTIAL_filled_canceled"
    THEN LET w1 == [w0 EXCEPT !.sm.leg1_filled_qty = filled_qty,
                              !.sm.current_position = @ - inc]
             w2 == send_cancel(update_state(w1, OpenLeg1Canceling),
                               Hyperliquid, order_id)
         IN  ClearActive(start_leg2_open(w2, TRUE, filled_qty, ok, pb, t))
    ELSE w0

\* The OpenLeg1Waiting branch of on_order_update_logic
OpenLeg1WaitingEvent(w0, event_type, order_id, filled_qty, inc, ok, pb, t) ==
    IF event_type = "ALL_traded"
    THEN LET w1 == [w0 EXCEPT !.sm.leg1_filled_qty = filled_qty,
                              !.sm.current_position = @ + inc]
         IN  ClearActive(start_leg2_open(w1, TRUE, w1.sm.leg1_filled_qty, ok, pb, t))
    ELSE IF event_type = "PARTIAL_filled_canceled"
    THEN LET w1 == [w0 EXCEPT !.sm.leg1_filled_qty = filled_qty,
                              !.sm.current_position = @ + inc]
             w2 == send_cancel(update_state(w1, OpenLeg1Canceling),
                               Hyperliquid, order_id)
         IN  ClearActive(start_leg2_open(w2, TRUE, filled_qty, ok, pb, t))
    ELSE w0

\* An OpenLeg1Canceling branch that starts Leg 2 afresh on a raced fill
\* (initial = True: chase_retry_count reset, state OpenLeg2Waiting).
OpenLeg1CancelingEvent_initial(w0, event_type, order_id, filled_qty, inc, ok, pb, t) ==
    IF event_type = "ALL_canceled"
    THEN ClearActive(IF w0.sm.leg1_filled_qty = 0
                     THEN update_state(w0, OpenCondition)
                     ELSE w0)
    ELSE IF event_type = "ALL_traded"
    THEN LET w1 == [w0 EXCEPT !.sm.leg1_filled_qty = filled_qty,
                              !.sm.current_position = @ + inc]
         IN  ClearActive(start_leg2_open(w1, TRUE, filled_qty, ok, pb, t))
    ELSE w0

\* The OpenLeg1Canceling branch of on_order_update_logic
OpenLeg1CancelingEvent(w0, event_type, order_id, filled_qty, inc, ok, pb, t) ==
    IF event_type = "ALL_canceled"
    THEN ClearActive(IF w0.sm.leg1_filled_qty = 0
                     THEN update_state(w0, OpenCondition)
                     ELSE w0)
    ELSE IF event_type = "ALL_traded"
    THEN LET w1 == [w0 EXCEPT !.sm.leg1_filled_qty = filled_qty,
                              !.sm.current_position = @ + inc]
         IN  ClearActive(start_leg2_open(w1, FALSE, filled_qty, ok, pb, t))
    ELSE w0

\* A Leg-2 branch that books the CEX fill into current_position as well.
Leg2Event_booking_position(w0, event_type, filled_qty, side, chasing, ok, pb, t) ==
    LET target == w0.sm.leg1_filled_qty
    IN  IF event_type = "ALL_traded"
        THEN LET w1 == [w0 EXCEPT !.sm.leg2_filled_qty = filled_qty,
                                  !.sm.current_position =
                                      IF side = "SELL" THEN @ + filled_qty
                                      ELSE @ - filled_qty]
             IN  IF target = w1.sm.leg2_filled_qty
                 THEN update_state(
                          [w1 EXCEPT !.sm.active_order_id = None,
                                     !.sm.leg1_filled_qty = 0,
                                     !.sm.leg2_filled_qty = 0,
                                     !.sm.chase_retry_count = 0],
                          IF side = "SELL" THEN CloseCondition
                          ELSE IF w1.sm.current_position <= 0 THEN OpenCondition
                          ELSE CloseCondition)
                 ELSE w1
        ELSE IF event_type = "PARTIAL_filled_canceled"
        THEN LET w1 == update_state([w0 EXCEPT !.sm.leg2_filled_qty = filled_qty],
                                    chasing)
                 remaining == target - w1.sm.leg2_filled_qty
             IN  IF remaining > 0
                 THEN execute_leg2_chase_step(w1, Binance, side, remaining, ok, pb, t)
                 ELSE w1
        ELSE IF event_type = "ALL_canceled"
        THEN LET w1 == update_state(w0, chasing)
                 remaining == target - w1.sm.leg2_filled_qty
             IN  IF remaining > 0
                 THEN execute_leg2_chase_step(w1, Binance, side, remaining, ok, pb, t)
                 ELSE w1
        ELSE w0

\* Leg 2 of either sequence: side is SELL and done_state CloseCondition for
\* the open sequence; for the close sequence side is BUY and the completion
\* state depends on current_position.
Leg2Event(w0, event_type, filled_qty, side, chasing, ok, pb, t) ==
    LET target == w0.sm.leg1_filled_qty
    IN  IF event_type = "ALL_traded"
        THEN LET w1 == [w0 EXCEPT !.sm.leg2_filled_qty = filled_qty]
             IN  IF target = w1.sm.leg2_filled_qty
                 THEN update_state(
                          [w1 EXCEPT !.sm.active_order_id = None,
                                     !.sm.leg1_filled_qty = 0,
                                     !.sm.leg2_filled_qty = 0,
                                     !.sm.chase_retry_count = 0],
                          IF side = "SELL" THEN CloseCondition
                          ELSE IF w1.sm.current_position <= 0 THEN OpenCondition
                          ELSE CloseCondition)
                 ELSE w1
        ELSE IF event_type = "PARTIAL_filled_canceled"
        THEN LET w1 == update_state([w0 EXCEPT !.sm.leg2_filled_qty = filled_qty],
                                    chasing)
                 remaining == target - w1.sm.leg2_filled_qty
             IN  IF remaining > 0
                 THEN execute_leg2_chase_step(w1, Binance, side, remaining, ok, pb, t)
                 ELSE w1
        ELSE IF event_type = "ALL_canceled"
        THEN LET w1 == update_state(w0, chasing)
                 remaining == target - w1.sm.leg2_filled_qty
             IN  IF remaining > 0
                 THEN execute_leg2_chase_step(w1, Binance, side, remaining, ok, pb, t)
                 ELSE w1
        ELSE w0

CloseLeg1WaitingEvent(w0, event_type, order_id, filled_qty, inc, ok, pb, t) ==
    IF event_type = "ALL_traded"
    THEN LET w1 == [w0 EXCEPT !.sm.leg1_filled_qty = filled_qty,
                              !.sm.current_position = @ - inc]
         IN  ClearActive(start_leg2_close(w1, TRUE, w1.sm.leg1_filled_qty, ok, pb, t))
    ELSE IF event_type = "PARTIAL_filled_canceled"
    THEN LET w1 == [w0 EXCEPT !.sm.leg1_filled_qty = filled_qty,
                              !.sm.current_position = @ - inc]
             w2 == send_cancel(update_state(w1, CloseLeg1Canceling),
                               Hyperliquid, order_id)
         IN  ClearActive(start_leg2_close(w2, TRUE, filled_qty, ok, pb, t))
    ELSE w0

\* A CloseLeg1Canceling branch that goes back to CloseCondition whatever the
\* position.
CloseLeg1CancelingEvent_always_close(w0, event_type, order_id, filled_qty, inc, ok, pb, t) ==
    IF event_type = "ALL_canceled"
    THEN ClearActive(update_state(w0, CloseCondition))
    ELSE IF event_type = "ALL_traded"
    THEN LET w1 == [w0 EXCEPT !.sm.leg1_filled_qty = filled_qty,
                              !.sm.current_position = @ - inc]
         IN  ClearActive(start_leg2_close(w1, FALSE, filled_qty, ok, pb, t))
    ELSE w0

\* The CloseLeg1Canceling branch of on_order_update_logic
CloseLeg1CancelingEvent(w0, event_type, order_id, filled_qty, inc, ok, pb, t) ==
    IF event_type = "ALL_canceled"
    THEN ClearActive(IF w0.sm.current_position <= 0
                     THEN update_state(w0, OpenCondition)
                     ELSE update_state(w0, CloseCondition))
    ELSE IF event_type = "ALL_traded"
    THEN LET w1 == [w0 EXCEPT !.sm.leg1_filled_qty = filled_qty,
                              !.sm.current_position = @ - inc]
         IN  ClearActive(start_leg2_close(w1, FALSE, filled_qty, ok, pb, t))
    ELSE w0

\* A handler that takes an event for any order id as one for the active order.
on_order_update_logic_any_id(w, exchange, event_type, order_id, filled_qty, ok, pb, t) ==
    IF order_id = None \/ w.sm.active_order_id = None THEN w
    ELSE
    LET last_cum == DictGet(w.sm.last_cum_filled_qty, order_id, 0)
        inc == IF filled_qty - last_cum < 0 THEN 0 ELSE filled_qty - last_cum
        w0 == [w EXCEPT !.sm.last_cum_filled_qty = DictPut(@, order_id, filled_qty)]
        state == w.sm.current_state
    IN  IF state = OpenLeg1Waiting
        THEN OpenLeg1WaitingEvent(w0, event_type, order_id, filled_qty, inc, ok, pb, t)
        ELSE IF state = OpenLeg1Canceling
        THEN OpenLeg1CancelingEvent(w0, event_type, order_id, filled_qty, inc, ok, pb, t)
        ELSE IF state \in {OpenLeg2Waiting, OpenLeg2Chasing}
        THEN Leg2Event(w0, event_type, filled_qty, "SELL", OpenLeg2Chasing, ok, pb, t)
        ELSE IF state = CloseLeg1Waiting
        THEN CloseLeg1WaitingEvent(w0, event_type, order_id, filled_qty, inc, ok, pb, t)
        ELSE IF state = CloseLeg1Canceling
        THEN CloseLeg1CancelingEvent(w0, event_type, order_id, filled_qty, inc, ok, pb, t)
        ELSE IF state \in {CloseLeg2Waiting, CloseLeg2Chasing}
        THEN Leg2Event(w0, event_type, filled_qty, "BUY", CloseLeg2Chasing, ok, pb, t)
        ELSE w0

\* on_order_update_logic, under the lock
on_order_update_logic(w, exchange, event_type, order_id, filled_qty, ok, pb, t) ==
    IF order_id = None \/ w.sm.active_order_id = None THEN w
    ELSE IF order_id # w.sm.active_order_id THEN w
    ELSE
    LET last_cum == DictGet(w.sm.last_cum_filled_qty, order_id, 0)
        inc == IF filled_qty - last_cum < 0 THEN 0 ELSE filled_qty - last_cum
        w0 == [w EXCEPT !.sm.last_cum_filled_qty = DictPut(@, order_id, filled_qty)]
        state == w.sm.current_state
    IN  IF state = OpenLeg1Waiting
        THEN OpenLeg1WaitingEvent(w0, event_type, order_id, filled_qty, inc, ok, pb, t)
        ELSE IF state = OpenLeg1Canceling
        THEN OpenLeg1CancelingEvent(w0, event_type, order_id, filled_qty, inc, ok, pb, t)
        ELSE IF state \in {OpenLeg2Waiting, OpenLeg2Chasing}
        THEN Leg2Event(w0, event_type, filled_qty, "SELL", OpenLeg2Chasing, ok, pb, t)
        ELSE IF state = CloseLeg1Waiting
        THEN CloseLeg1WaitingEvent(w0, event_type, order_id, filled_qty, inc, ok, pb, t)
        ELSE IF state = CloseLeg1Canceling
        THEN CloseLeg1CancelingEvent(w0, event_type, order_id, filled_qty, inc, ok, pb, t)
        ELSE IF state \in {CloseLeg2Waiting, CloseLeg2Chasing}
        THEN Leg2Event(w0, event_type, filled_qty, "BUY", CloseLeg2Chasing, ok, pb, t)
        ELSE w0

\* A critical section that relies on the get_state() check made before the
\* lock was taken and does not look at current_state again.
open_locked_unchecked(w, ok, pb, t) ==
    LET price_raw == get_price(pb, Hyperliquid, "bid", t)
        price == round_price(price_raw, 1, Hyperliquid)
        qty == round_qty(base_quantity, Hyperliquid)
        p == place_order(w, Hyperliquid, "BUY", qty, price, ok)
        r == extract_order_id(p.response, Hyperliquid)
    IN  IF price_raw = NoPrice THEN w
        ELSE IF qty <= 0 THEN w
        ELSE IF r.success /\ r.order_id # None
        THEN update_state(
                 [p.w EXCEPT !.sm.active_order_id = r.order_id,
                             !.sm.active_order_time = t,
                             !.sm.leg1_filled_qty = 0,
                             !.sm.last_cum_filled_qty = DictPut(@, r.order_id, 0)],
                 OpenLeg1Waiting)
        ELSE p.w

\* A critical section that moves to OpenLeg1Waiting whatever the answer to
\* the placement was.
open_locked_regardless(w, ok, pb, t) ==
    LET price_raw == get_price(pb, Hyperliquid, "bid", t)
        price == round_price(price_raw, 1, Hyperliquid)
        qty == round_qty(base_quantity, Hyperliquid)
        p == place_order(w, Hyperliquid, "BUY", qty, price, ok)
        r == extract_order_id(p.response, Hyperliquid)
    IN  IF w.sm.current_state # OpenCondition THEN w
        ELSE IF price_raw = NoPrice THEN w
        ELSE IF qty <= 0 THEN w
        ELSE update_state(
                 [p.w EXCEPT !.sm.active_order_id = r.order_id,
                             !.sm.active_order_time = t,
                             !.sm.leg1_filled_qty = 0],
                 OpenLeg1Waiting)

\* A critical section that keeps the leg1_filled_qty of the last episode.
open_locked_keeping_leg1(w, ok, pb, t) ==
    LET price_raw == get_price(pb, Hyperliquid, "bid", t)
        price == round_price(price_raw, 1, Hyperliquid)
        qty == round_qty(base_quantity, Hyperliquid)
        p == place_order(w, Hyperliquid, "BUY", qty, price, ok)
        r == extract_order_id(p.response, Hyperliquid)
    IN  IF w.sm.current_state # OpenCondition THEN w
        ELSE IF price_raw = NoPrice THEN w
        ELSE IF qty <= 0 THEN w
        ELSE IF r.success /\ r.order_id # None
        THEN update_state(
                 [p.w EXCEPT !.sm.active_order_id = r.order_id,
                             !.sm.active_order_time = t,
                             !.sm.last_cum_filled_qty = DictPut(@, r.order_id, 0)],
                 OpenLeg1Waiting)
        ELSE p.w

\* The critical section of check_and_execute_open (with self.lock: ...)
open_locked(w, ok, pb, t) ==
    LET price_raw == get_price(pb, Hyperliquid, "bid", t)
        price == round_price(price_raw, 1, Hyperliquid)
        qty == round_qty(base_quantity, Hyperliquid)
        p == place_order(w, Hyperliquid, "BUY", qty, price, ok)
        r == extract_order_id(p.response, Hyperliquid)
    IN  IF w.sm.current_state # OpenCondition THEN w
        ELSE IF price_raw = NoPrice THEN w
        ELSE IF qty <= 0 THEN w
        ELSE IF r.success /\ r.order_id # None
        THEN update_state(
                 [p.w EXCEPT !.sm.active_order_id = r.order_id,
                             !.sm.active_order_time = t,
                             !.sm.leg1_filled_qty = 0,
                             !.sm.last_cum_filled_qty = DictPut(@, r.order_id, 0)],
                 OpenLeg1Waiting)
        ELSE p.w

\* A critical section that offers current_position as it is, unrounded.
close_locked_unrounded(w, ok, pb, t) ==
    LET price_raw == get_price(pb, Hyperliquid, "ask", t)
        price == round_price(price_raw, 1, Hyperliquid)
        qty == w.sm.current_position
        p == place_order(w, Hyperliquid, "SELL", qty, price, ok)
        r == extract_order_id(p.response, Hyperliquid)
    IN  IF w.sm.current_state # CloseCondition THEN w
        ELSE IF w.sm.current_position <= 0 THEN w
        ELSE IF price_raw = NoPrice THEN w
        ELSE IF qty <= 0 THEN w
        ELSE IF r.success /\ r.order_id # None
        THEN update_state(
                 [p.w EXCEPT !.sm.active_order_id = r.order_id,
                             !.sm.active_order_time = t,
                             !.sm.leg1_filled_qty = 0,
                             !.sm.last_cum_filled_qty = DictPut(@, r.order_id, 0)],
                 CloseLeg1Waiting)
        ELSE p.w

\* The critical section of check_and_execute_close
close_locked(w, ok, pb, t) ==
    LET price_raw == get_price(pb, Hyperliquid, "ask", t)
        price == round_price(price_raw, 1, Hyperliquid)
        qty == round_qty(w.sm.current_position, Hyperliquid)
        p == place_order(w, Hyperliquid, "SELL", qty, price, ok)
        r == extract_order_id(p.response, Hyperliquid)
    IN  IF w.sm.current_state # CloseCondition THEN w
        ELSE IF w.sm.current_position <= 0 THEN w
        ELSE IF price_raw = NoPrice THEN w
        ELSE IF qty <= 0 THEN w
        ELSE IF r.success /\ r.order_id # None
        THEN update_state(
                 [p.w EXCEPT !.sm.active_order_id = r.order_id,
                             !.sm.active_order_time = t,
                             !.sm.leg1_filled_qty = 0,
                             !.sm.last_cum_filled_qty = DictPut(@, r.order_id, 0)],
                 CloseLeg1Waiting)
        ELSE p.w

\* ------------------------------------------------- user-stream normalizer
\* A raw user-stream message is [kind, status, cum, sz, oid]; kind is the
\* message's "e" field on Binance and its "channel" on Hyperliquid.  The
\* callbacks of main.py turn it into the handler's (event_type, filled_qty),
\* or into no call at all (event_type "none").
binance_user_callback(ev) ==
    IF ev.kind \notin {"ORDER_TRADE_UPDATE", "executionReport"}
    THEN [event_type |-> "none", filled_qty |-> 0]
    ELSE IF ev.status = "FILLED"
    THEN [event_type |-> "ALL_traded", filled_qty |-> ev.cum]
    ELSE IF ev.status \in {"CANCELED", "EXPIRED"}
    THEN IF ev.cum > 0
         THEN [event_type |-> "PARTIAL_filled_canceled", filled_qty |-> ev.cum]
         ELSE [event_type |-> "ALL_canceled", filled_qty |-> 0]
    ELSE IF ev.status = "REJECTED"
    THEN [event_type |-> "ALL_canceled", filled_qty |-> 0]
    ELSE [event_type |-> "none", filled_qty |-> 0]

\* hyper_user_callback without the cumSz >= sz test on "filled".
hyper_user_callback_any_filled(ev) ==
    IF ev.status = "filled"
    THEN [event_type |-> "ALL_traded", filled_qty |-> ev.cum]
    ELSE IF ev.status \in {"canceled", "cancelled"}
    THEN IF ev.cum > 0
         THEN [event_type |-> "PARTIAL_filled_canceled", filled_qty |-> ev.cum]
         ELSE [event_type |-> "ALL_canceled", filled_qty |-> 0]
    ELSE [event_type |-> "ALL_canceled", filled_qty |-> 0]

hyper_user_callback(ev) ==
    IF ev.kind \notin {"orderUpdates", "user"}
    THEN [event_type |-> "none", filled_qty |-> 0]
    ELSE IF ev.status = "filled"
    THEN IF ev.cum >= ev.sz
         THEN [event_type |-> "ALL_traded", filled_qty |-> ev.cum]
         ELSE [event_type |-> "none", filled_qty |-> 0]
    ELSE IF ev.status \in {"canceled", "cancelled"}
    THEN IF ev.cum > 0
         THEN [event_type |-> "PARTIAL_filled_canceled", filled_qty |-> ev.cum]
         ELSE [event_type |-> "ALL_canceled", filled_qty |-> 0]
    ELSE IF ev.status \in {"rejected", "expired"}
    THEN [event_type |-> "ALL_canceled", filled_qty |-> 0]
    ELSE [event_type |-> "none", filled_qty |-> 0]

user_callback(exchange, ev) ==
    IF exchange = Binance THEN binance_user_callback(ev) ELSE hyper_user_callback(ev)

\* ------------------------------------------------- user-stream dispatch
\* BinanceWebSocket._on_message on a user stream: only an executionReport
\* reaches the "order" callbacks, every other event type is logged.
BinanceWebSocket_on_message(ev) == ev.kind = "executionReport"

\* The channels HyperliquidWebSocket holds callbacks for: "user" from the
\* constructor, "l2Book" from subscribe_l2book.
HyperliquidCallbacks == {"l2Book", "user"}

\* HyperliquidWebSocket._on_message: a message reaches the callbacks
\* registered under its channel.
HyperliquidWebSocket_on_message(ev) == ev.kind \in HyperliquidCallbacks

\* TRUE iff the venue's websocket hands the message to the user callback.
on_message(exchange, ev) ==
    IF exchange = Binance THEN BinanceWebSocket_on_message(ev)
    ELSE HyperliquidWebSocket_on_message(ev)

\* --------------------------------------------------------------- venues
\* The status words of each venue's user stream.
StatusWord(exchange, what) ==
    IF exchange = Binance
    THEN (CASE what = "filled" -> "FILLED"
            [] what = "canceled" -> "CANCELED"
            [] what = "expired" -> "EXPIRED"
            [] OTHER -> "PARTIALLY_FILLED")
    ELSE (CASE what = "filled" -> "filled"
            [] what = "canceled" -> "canceled"
            [] what = "expired" -> "expired"
            [] OTHER -> "filled")

\* The order messages each venue sends on the stream the program opens: the
\* Binance futures user stream (futures listen key) sends ORDER_TRADE_UPDATE,
\* the Hyperliquid "user" subscription sends channel "user".
StreamKind(exchange) ==
    IF exchange = Binance THEN "ORDER_TRADE_UPDATE" ELSE "user"

\* The two message formats main.py's callbacks parse, per venue.
MessageKinds(exchange) ==
    IF exchange = Binance THEN {"ORDER_TRADE_UPDATE", "executionReport"}
    ELSE {"orderUpdates", "user"}

RawEvent(o, what, cum) ==
    [kind |-> StreamKind(o.exchange), status |-> StatusWord(o.exchange, what),
     cum |-> cum, sz |-> o.qty, oid |-> o.oid]

Emit(evs, o, what, cum) ==
    [evs EXCEPT ![o.exchange] = Append(@, RawEvent(o, what, cum))]

LiveOrders == {i \in DOMAIN orders : orders[i].status = "live"}

\* ---------------------------------------------------------------- state
World == [sm |-> sm, orders |-> orders, cancel_reqs |-> cancel_reqs, log |-> EmptyLog]

Call(op, exchange, event_type, order_id, filled_qty, w) ==
    [op |-> op, exchange |-> exchange, event_type |-> event_type,
     order_id |-> order_id, filled_qty |-> filled_qty,
     pre |-> sm, log |-> w.log]

\* The machine as constructed (StrategyStateMachine.__init__).
sm0 ==
    [current_state |-> OpenCondition,
     leg1_filled_qty |-> 0,
     leg2_filled_qty |-> 0,
     current_position |-> 0,
     active_order_id |-> None,
     active_order_time |-> now - OrderHorizon,
     chase_retry_count |-> 0,
     last_cum_filled_qty |-> [x \in {} |-> 0]]

\* last_call after a step that is no call on the machine.
NoCall == [op |-> "none", exchange |-> "-", event_type |-> "-", order_id |-> None,
           filled_qty |-> 0, pre |-> sm0, log |-> EmptyLog]

\* The state after StrategyStateMachine.__init__ and PriceBoard.__init__.
Init ==
    /\ sm = sm0
    /\ prices = [e \in Exchanges |-> Ticker0]
    /\ orders = <<>>
    /\ events = [e \in Exchanges |-> <<>>]
    /\ cancel_reqs = {}
    /\ pc = "idle"
    /\ started = "boot"
    /\ last_call = NoCall

Running == started = "running"

\* The machine's variables after a call that took w to w2.
Apply(w2, call) ==
    /\ sm' = w2.sm
    /\ orders' = w2.orders
    /\ cancel_reqs' = w2.cancel_reqs
    /\ last_call' = call

\* A placement can be accepted only while the venues have an id left.
CanPlace(ok) == ok => Len(orders) < MaxOrders

\* ------------------------------------------------------------- startup
\* InitialStateChecker.Req_Investment_position: the decision from the two
\* positions ("none", "long" or "short" each).
Req_Investment_position(binance_side, hyper_side) ==
    IF binance_side = "none" /\ hyper_side = "none"
    THEN [valid |-> TRUE, initial_state |-> OpenCondition]
    ELSE IF binance_side # "none" /\ hyper_side # "none"
    THEN IF binance_side = "short" /\ hyper_side = "long"
         THEN [valid |-> TRUE, initial_state |-> CloseCondition]
         ELSE [valid |-> FALSE, initial_state |-> None]
    ELSE [valid |-> FALSE, initial_state |-> None]

\* The position amounts a venue can report at startup (0.0001 units; a
\* negative amount is a short position).
PositionAmts == {0 - base_quantity, 0 - 6, 0, 6, base_quantity}

\* The side the reconciler derives from a venue's answer; a query that
\* raised leaves the position None.
position_side(amount, query_ok) ==
    IF ~query_ok \/ amount = 0 THEN "none"
    ELSE IF amount > 0 THEN "long" ELSE "short"

\* main.py, startup: Req_Investment_position, then exit(1) when it returned
\* False.
Reconcile ==
    /\ started = "boot"
    /\ \E binance_amt \in PositionAmts, hyper_amt \in PositionAmts,
          binance_ok \in BOOLEAN, hyper_ok \in BOOLEAN :
          LET d == Req_Investment_position(position_side(binance_amt, binance_ok),
                                           position_side(hyper_amt, hyper_ok))
          IN  /\ started' = IF d.valid THEN "running" ELSE "refused"
              /\ sm' = IF d.valid
                       THEN [sm EXCEPT !.current_state = d.initial_state]
                       ELSE sm
              /\ last_call' = [op |-> "Req_Investment_position",
                               exchange |-> "-", event_type |-> "-",
                               order_id |-> None, filled_qty |-> 0,
                               pre |-> sm, log |-> EmptyLog,
                               binance_amt |-> binance_amt,
                               binance_ok |-> binance_ok,
                               hyper_amt |-> hyper_amt,
                               hyper_ok |-> hyper_ok,
                               valid |-> d.valid,
                               initial_state |-> d.initial_state]
    /\ UNCHANGED <<prices, orders, events, cancel_reqs, pc>>

\* ---------------------------------------------------------------- time
\* One second passes.
Advance ==
    /\ Running
    /\ prices' = [e \in Exchanges |->
                     [prices[e] EXCEPT !.timestamp = Older(@, TickerHorizon)]]
    /\ sm' = [sm EXCEPT !.active_order_time = Older(@, OrderHorizon)]
    /\ last_call' = NoCall
    /\ UNCHANGED <<orders, events, cancel_reqs, pc, started>>

\* --------------------------------------------------------- market feeds
\* Depth_Marketdata.on_hyperliquid_l2book: push_neworder_book only.
HyperBook ==
    /\ Running
    /\ \E book \in HyperBooks :
          prices' = push_neworder_book(prices, Hyperliquid, book, now)
    /\ last_call' = NoCall
    /\ UNCHANGED <<sm, orders, events, cancel_reqs, pc, started>>

\* Depth_Marketdata.on_binance_l2book, step by step.
BinanceBook ==
    /\ Running
    /\ pc = "idle"
    /\ \E book \in BinanceBooks :
          /\ prices' = push_neworder_book(prices, Binance, book, now)
          /\ pc' = IF book.empty THEN "idle" ELSE "md_spread"
    /\ last_call' = NoCall
    /\ UNCHANGED <<sm, orders, events, cancel_reqs, started>>

MdSpread ==
    /\ pc = "md_spread"
    /\ pc' = IF get_spread(prices, now).valid THEN "md_state" ELSE "idle"
    /\ last_call' = NoCall
    /\ UNCHANGED <<sm, prices, orders, events, cancel_reqs, started>>

\* on_binance_l2book without the tests of current_state: the open signal is
\* looked at in every state but CloseCondition.
MdGetState_any_state ==
    /\ pc = "md_state"
    /\ pc' = IF sm.current_state = CloseCondition THEN "md_close_signal"
             ELSE "md_open_signal"
    /\ last_call' = NoCall
    /\ UNCHANGED <<sm, prices, orders, events, cancel_reqs, started>>

MdGetState ==
    /\ pc = "md_state"
    /\ pc' = IF sm.current_state = OpenCondition THEN "md_open_signal"
             ELSE IF sm.current_state = CloseCondition THEN "md_close_signal"
             ELSE "idle"
    /\ last_call' = NoCall
    /\ UNCHANGED <<sm, prices, orders, events, cancel_reqs, started>>

MdOpenSignal ==
    /\ pc = "md_open_signal"
    /\ pc' = IF open_signal(prices, now) THEN "open_get_state" ELSE "idle"
    /\ last_call' = NoCall
    /\ UNCHANGED <<sm, prices, orders, events, cancel_reqs, started>>

MdCloseSignal ==
    /\ pc = "md_close_signal"
    /\ pc' = IF close_signal(prices, now) THEN "close_get_state" ELSE "idle"
    /\ last_call' = NoCall
    /\ UNCHANGED <<sm, prices, orders, events, cancel_reqs, started>>

\* check_and_execute_open: get_state(), signal_func(), then the locked part.
OpenGetState ==
    /\ pc = "open_get_state"
    /\ pc' = IF sm.current_state # OpenCondition THEN "idle" ELSE "open_signal"
    /\ last_call' = NoCall
    /\ UNCHANGED <<sm, prices, orders, events, cancel_reqs, started>>

OpenSignal ==
    /\ pc = "open_signal"
    /\ pc' = IF open_signal(prices, now) THEN "open_lock" ELSE "idle"
    /\ last_call' = NoCall
    /\ UNCHANGED <<sm, prices, orders, events, cancel_reqs, started>>

OpenLock ==
    /\ pc = "open_lock"
    /\ \E ok \in BOOLEAN :
          /\ CanPlace(ok)
          /\ LET w2 == open_locked(World, ok, prices, now)
             IN  Apply(w2, Call("check_and_execute_open", "-", "-", None, 0, w2))
    /\ pc' = "idle"
    /\ UNCHANGED <<prices, events, started>>

\* check_and_execute_close
CloseGetState ==
    /\ pc = "close_get_state"
    /\ pc' = IF sm.current_state # CloseCondition THEN "idle" ELSE "close_signal"
    /\ last_call' = NoCall
    /\ UNCHANGED <<sm, prices, orders, events, cancel_reqs, started>>

CloseSignal ==
    /\ pc = "close_signal"
    /\ pc' = IF close_signal(prices, now) THEN "close_lock" ELSE "idle"
    /\ last_call' = NoCall
    /\ UNCHANGED <<sm, prices, orders, events, cancel_reqs, started>>

CloseLock ==
    /\ pc = "close_lock"
    /\ \E ok \in BOOLEAN :
          /\ CanPlace(ok)
          /\ LET w2 == close_locked(World, ok, prices, now)
             IN  Apply(w2, Call("check_and_execute_close", "-", "-", None, 0, w2))
    /\ pc' = "idle"
    /\ UNCHANGED <<prices, events, started>>

\* ------------------------------------------------------ timeout sweep
\* A sweep that does nothing leaves no call behind in last_call.
Tick ==
    /\ Running
    /\ LET w2 == on_tick_check(World, now)
       IN  Apply(w2, IF w2 = World THEN NoCall
                     ELSE Call("on_tick_check", "-", "-", None, 0, w2))
    /\ UNCHANGED <<prices, events, pc, started>>

\* ------------------------------------------------------- user streams
\* One user-stream message: the websocket's _on_message, the venue's
\* callback if the message is dispatched, and through it
\* on_order_update_logic.
Deliver ==
    /\ Running
    /\ \E exchange \in Exchanges :
          /\ events[exchange] # <<>>
          /\ LET ev == Head(events[exchange])
                 n == IF on_message(exchange, ev) THEN user_callback(exchange, ev)
                      ELSE [event_type |-> "none", filled_qty |-> 0]
             IN  /\ events' = [events EXCEPT ![exchange] = Tail(@)]
                 /\ IF n.event_type = "none"
                    THEN /\ last_call' = NoCall
                         /\ UNCHANGED <<sm, orders, cancel_reqs>>
                    ELSE \E ok \in BOOLEAN :
                            /\ CanPlace(ok)
                            /\ LET w2 == on_order_update_logic(World, exchange,
                                             n.event_type, ev.oid, n.filled_qty,
                                             ok, prices, now)
                               IN  Apply(w2, Call("on_order_update_logic", exchange,
                                                  n.event_type, ev.oid,
                                                  n.filled_qty, w2))
    /\ UNCHANGED <<prices, pc, started>>

\* A step that takes the oldest message off the venue's user stream.
Received(exchange) ==
    /\ events[exchange] # <<>>
    /\ events'[exchange] = Tail(events[exchange])

\* ------------------------------------------------------------- venues
\* A resting order trades in part.
VenueProgress ==
    /\ \E i \in LiveOrders, q \in PartialQtys :
          /\ orders[i].cum = 0
          /\ q < orders[i].qty
          /\ orders' = [orders EXCEPT ![i].cum = q]
          /\ events' = Emit(events, orders[i], "partial", q)
    /\ last_call' = NoCall
    /\ UNCHANGED <<sm, prices, cancel_reqs, pc, started>>

\* A resting order trades completely.
VenueFill ==
    /\ \E i \in LiveOrders :
          /\ orders' = [orders EXCEPT ![i].cum = orders[i].qty, ![i].status = "filled"]
          /\ events' = Emit(events, orders[i], "filled", orders[i].qty)
    /\ last_call' = NoCall
    /\ UNCHANGED <<sm, prices, cancel_reqs, pc, started>>

\* One _send_cancel thread runs cancel_order: the order is canceled if the
\* request gets through and the order rests on that venue under that id;
\* otherwise the request fails (cancel_order answers with an error, which
\* _send_cancel drops) and nothing follows.
VenueCancel ==
    /\ \E req \in cancel_reqs, through \in BOOLEAN :
          LET hit == {i \in LiveOrders : /\ through
                                         /\ orders[i].exchange = req[1]
                                         /\ orders[i].oid = req[2]}
          IN  /\ cancel_reqs' = cancel_reqs \ {req}
              /\ IF hit = {}
                 THEN UNCHANGED <<orders, events>>
                 ELSE LET i == CHOOSE i \in hit : TRUE
                      IN  /\ orders' = [orders EXCEPT ![i].status = "canceled"]
                          /\ events' = Emit(events, orders[i], "canceled", orders[i].cum)
    /\ last_call' = NoCall
    /\ UNCHANGED <<sm, prices, pc, started>>

\* The venue ends a resting order on its own (expiry, or a cancel that is
\* not the engine's).
VenueExpire ==
    /\ \E i \in LiveOrders, what \in {"canceled", "expired"} :
          /\ orders' = [orders EXCEPT ![i].status = "canceled"]
          /\ events' = Emit(events, orders[i], what, orders[i].cum)
    /\ last_call' = NoCall
    /\ UNCHANGED <<sm, prices, cancel_reqs, pc, started>>

Next ==
    \/ Reconcile
    \/ Advance
    \/ HyperBook
    \/ BinanceBook
    \/ MdSpread
    \/ MdGetState
    \/ MdOpenSignal
    \/ MdCloseSignal
    \/ OpenGetState
    \/ OpenSignal
    \/ OpenLock
    \/ CloseGetState
    \/ CloseSignal
    \/ CloseLock
    \/ Tick
    \/ Deliver
    \/ VenueProgress
    \/ VenueFill
    \/ VenueCancel
    \/ VenueExpire

Spec == Init /\ [][Next]_vars

\* ------------------------------------------------ the threads of main.py
\* What main.py starts: the reconciler, the two market feeds, the two user
\* streams, and its own loop, "while True: time.sleep(1)", which is Advance
\* and calls nothing.  No thread of the program calls on_tick_check, so Tick
\* is not among the steps; the loop keeps running (one second always passes).
MainNext ==
    \/ Reconcile
    \/ Advance
    \/ HyperBook
    \/ BinanceBook
    \/ MdSpread
    \/ MdGetState
    \/ MdOpenSignal
    \/ MdCloseSignal
    \/ OpenGetState
    \/ OpenSignal
    \/ OpenLock
    \/ CloseGetState
    \/ CloseSignal
    \/ CloseLock
    \/ Deliver
    \/ VenueProgress
    \/ VenueFill
    \/ VenueCancel
    \/ VenueExpire

MainSpec == Init /\ [][MainNext]_vars /\ WF_vars(Advance)

\* ------------------------------------------------- the chase step alone
\* _execute_leg2_chase_step applied in every Leg-2 state, at every
\* chase_retry_count up to one past max_chase_retries, with the CEX ticker
\* unset, fresh or stale.  The side is the one the state's sequence uses.
ChaseCounts == 0 .. (max_chase_retries + 1)
ChaseQtys == PartialQtys \cup {base_quantity}
ChaseTickers ==
    {Ticker0} \cup
    {[bid_price |-> b.bid, ask_price |-> b.ask, timestamp |-> ts] :
        b \in {x \in BinanceBooks : ~x.empty},
        ts \in {now, now - TickerHorizon}}

ChaseInit ==
    /\ \E s \in Leg2States, c \in ChaseCounts :
          sm = [sm0 EXCEPT !.current_state = s, !.chase_retry_count = c]
    /\ \E ticker \in ChaseTickers :
          prices = [e \in Exchanges |-> IF e = Binance THEN ticker ELSE Ticker0]
    /\ orders = <<>>
    /\ events = [e \in Exchanges |-> <<>>]
    /\ cancel_reqs = {}
    /\ pc = "idle"
    /\ started = "running"
    /\ last_call = NoCall

ChaseStep ==
    /\ sm.chase_retry_count \in ChaseCounts
    /\ \E qty \in ChaseQtys, ok \in BOOLEAN :
          /\ CanPlace(ok)
          /\ LET side == IF sm.current_state \in {OpenLeg2Waiting, OpenLeg2Chasing}
                         THEN "SELL" ELSE "BUY"
                 w2 == execute_leg2_chase_step(World, Binance, side, qty, ok,
                                               prices, now)
             IN  Apply(w2, Call("_execute_leg2_chase_step", Binance, "-", None,
                                qty, w2))
    /\ UNCHANGED <<prices, events, pc, started>>

ChaseNext == ChaseStep

ChaseSpec == ChaseInit /\ [][ChaseNext]_vars

\* ------------------------------------------ the machine from any state
\* The machine's methods applied from every combination of field values of a
\* bounded set, a superset of the states the running program reaches: what
\* holds of every call here holds of every call of the program.  An active
\* order o1 rests at the venue of the state's leg.
AllStates == ConditionStates \cup LegStates

UnitMachines ==
    {[current_state |-> s,
      leg1_filled_qty |-> l1,
      leg2_filled_qty |-> 0,
      current_position |-> p,
      active_order_id |-> a,
      active_order_time |-> ts,
      chase_retry_count |-> c,
      last_cum_filled_qty |-> IF a = None THEN [x \in {} |-> 0]
                              ELSE [x \in {a} |-> 0]] :
        s \in AllStates, l1 \in {0, base_quantity},
        p \in {0, base_quantity} \cup PartialQtys, a \in {None, OrderIdOf(1)},
        ts \in {now, now - order_timeout_sec, now - OrderHorizon},
        c \in {0, max_chase_retries}}

UnitOrders(m) ==
    IF m.active_order_id = None THEN <<>>
    ELSE <<[oid |-> m.active_order_id,
            exchange |-> IF m.current_state \in Leg2States
                         THEN Binance ELSE Hyperliquid,
            side |-> IF m.current_state \in {OpenLeg2Waiting, OpenLeg2Chasing,
                                             CloseCondition, CloseLeg1Waiting,
                                             CloseLeg1Canceling}
                     THEN "SELL" ELSE "BUY",
            qty |-> base_quantity, price |-> NoPrice,
            status |-> "live", cum |-> 0]>>

UnitPrices ==
    {[e \in Exchanges |-> Ticker0]} \cup
    {[e \in Exchanges |->
        IF e = Binance
        THEN [bid_price |-> b.bid, ask_price |-> b.ask, timestamp |-> now]
        ELSE [bid_price |-> h.bid, ask_price |-> h.ask, timestamp |-> now]] :
        b \in {x \in BinanceBooks : ~x.empty},
        h \in {x \in HyperBooks : ~x.empty}}

UnitInit ==
    /\ sm \in UnitMachines
    /\ orders = UnitOrders(sm)
    /\ prices \in UnitPrices
    /\ events = [e \in Exchanges |-> <<>>]
    /\ cancel_reqs = {}
    /\ pc = "idle"
    /\ started = "running"
    /\ last_call = NoCall

\* A user-stream message about an order that need not be the active one.
StrayEvent ==
    /\ \E exchange \in Exchanges, n \in {1, 2},
          what \in {"filled", "canceled", "partial"}, cum \in {0} \cup ChaseQtys :
          \E kind \in MessageKinds(exchange) :
             /\ \A e \in Exchanges : events[e] = <<>>
             /\ events' = [events EXCEPT ![exchange] =
                              <<[kind |-> kind, status |-> StatusWord(exchange, what),
                                 cum |-> cum, sz |-> base_quantity,
                                 oid |-> OrderIdOf(n)]>>]
    /\ last_call' = NoCall
    /\ UNCHANGED <<sm, prices, orders, cancel_reqs, pc, started>>

\* Sweeps, the venues and the user streams, on a machine that holds
\* base_quantity and has not chased yet.
SweepInit ==
    /\ UnitInit
    /\ sm.current_position = base_quantity
    /\ sm.chase_retry_count = 0

UnitNext ==
    \/ Tick
    \/ VenueCancel
    \/ Deliver
    \/ StrayEvent

UnitSpec == SweepInit /\ [][UnitNext]_vars

\* The market-feed thread and its signal calls.
SignalNext ==
    \/ Advance
    \/ HyperBook
    \/ BinanceBook
    \/ MdSpread
    \/ MdGetState
    \/ MdOpenSignal
    \/ MdCloseSignal
    \/ OpenGetState
    \/ OpenSignal
    \/ OpenLock
    \/ CloseGetState
    \/ CloseSignal
    \/ CloseLock

SignalSpec == UnitInit /\ [][SignalNext]_vars

\* ------------------------------------------------------ the books alone
\* push_neworder_book on every kind of book a feed can parse: a normal book,
\* a locked one (bid = ask), a crossed one (bid > ask), and books with the
\* ask side or the bid side missing.
AnyBooks ==
    { [bid |-> 6000, ask |-> 6001, empty |-> FALSE],
      [bid |-> 6010, ask |-> 6011, empty |-> FALSE],
      [bid |-> 6005, ask |-> 6005, empty |-> FALSE],
      [bid |-> 6008, ask |-> 6003, empty |-> FALSE],
      [bid |-> 6000, ask |-> 0, empty |-> TRUE],
      [bid |-> 0, ask |-> 6001, empty |-> TRUE] }

BookInit ==
    /\ sm = sm0
    /\ prices = [e \in Exchanges |-> Ticker0]
    /\ orders = <<>>
    /\ events = [e \in Exchanges |-> <<>>]
    /\ cancel_reqs = {}
    /\ pc = "idle"
    /\ started = "running"
    /\ last_call = NoCall

PushBook ==
    /\ \E exchange \in Exchanges, book \in AnyBooks :
          /\ prices' = push_neworder_book(prices, exchange, book, now)
          /\ last_call' = [op |-> "push_neworder_book", exchange |-> exchange,
                           event_type |-> "-", order_id |-> None, filled_qty |-> 0,
                           pre |-> sm, log |-> EmptyLog,
                           book |-> book, board |-> prices]
    /\ UNCHANGED <<sm, orders, events, cancel_reqs, pc, started>>

BookNext ==
    \/ Advance
    \/ PushBook

BookSpec == BookInit /\ [][BookNext]_vars

\* --------------------------------------------------- one call, any state
\* One call of on_order_update_logic or of on_tick_check on a machine in any
\* state, with any fill counters, and with any event the callbacks can
\* hand over: the handler's and the sweep's contracts, call by call.
CallMachines ==
    {[current_state |-> s,
      leg1_filled_qty |-> l1,
      leg2_filled_qty |-> l2,
      current_position |-> p,
      active_order_id |-> a,
      active_order_time |-> ts,
      chase_retry_count |-> c,
      last_cum_filled_qty |-> IF a = None THEN [x \in {} |-> 0]
                              ELSE [x \in {a} |-> lc]] :
        s \in AllStates, l1 \in {0, base_quantity}, l2 \in {0, 4},
        p \in {0, base_quantity} \cup PartialQtys, a \in {None, OrderIdOf(1)},
        ts \in {now, now - OrderHorizon},
        c \in {0, max_chase_retries}, lc \in {0, 6}}

CallPrices ==
    {[e \in Exchanges |-> Ticker0],
     [e \in Exchanges |->
        IF e = Binance
        THEN [bid_price |-> 6000, ask_price |-> 6001, timestamp |-> now]
        ELSE [bid_price |-> 6010, ask_price |-> 6011, timestamp |-> now]]}

EventTypes == {"ALL_traded", "PARTIAL_filled_canceled", "ALL_canceled"}

CallInit ==
    /\ sm \in CallMachines
    /\ orders = UnitOrders(sm)
    /\ prices \in CallPrices
    /\ events = [e \in Exchanges |-> <<>>]
    /\ cancel_reqs = {}
    /\ pc = "idle"
    /\ started = "running"
    /\ last_call = NoCall

\* One call of the handler, as the callbacks of main.py make it.
HandleEvent ==
    /\ last_call = NoCall
    /\ \E exchange \in Exchanges, event_type \in EventTypes, n \in {1, 2},
          filled_qty \in {0} \cup ChaseQtys, ok \in BOOLEAN :
          /\ CanPlace(ok)
          /\ (event_type = "ALL_canceled") => (filled_qty = 0)
          /\ LET w2 == on_order_update_logic(World, exchange, event_type,
                                             OrderIdOf(n), filled_qty, ok, prices, now)
             IN  Apply(w2, Call("on_order_update_logic", exchange, event_type,
                                OrderIdOf(n), filled_qty, w2))
    /\ UNCHANGED <<prices, events, pc, started>>

\* One sweep.
SweepCall ==
    /\ last_call = NoCall
    /\ LET w2 == on_tick_check(World, now)
       IN  Apply(w2, Call("on_tick_check", "-", "-", None, 0, w2))
    /\ UNCHANGED <<prices, events, pc, started>>

CallNext ==
    \/ HandleEvent
    \/ SweepCall

CallSpec == CallInit /\ [][CallNext]_vars

\* ------------------------------------------------ an episode, run fairly
\* One episode from its Leg-1 order on, under the best conditions: every
\* placement is accepted, on_tick_check is called again and again, every
\* resting order is eventually filled if nothing else ends it, and every
\* user-stream message is handed to the venue's callback and through it to
\* on_order_update_logic.
LiveMachines ==
    {m \in UnitMachines :
        /\ m.current_state \in {OpenLeg1Waiting, CloseLeg1Waiting}
        /\ m.active_order_id = OrderIdOf(1)
        /\ m.active_order_time = now
        /\ m.leg1_filled_qty = 0
        /\ m.chase_retry_count = 0
        /\ m.current_position = (IF m.current_state = OpenLeg1Waiting
                                 THEN 0 ELSE base_quantity)}

LiveInit ==
    /\ sm \in LiveMachines
    /\ orders = UnitOrders(sm)
    /\ prices \in UnitPrices
    /\ events = [e \in Exchanges |-> <<>>]
    /\ cancel_reqs = {}
    /\ pc = "idle"
    /\ started = "running"
    /\ last_call = NoCall

\* The call the venue's callback makes of the oldest message of a stream,
\* every placement accepted.
HandledWorld(exchange) ==
    LET ev == Head(events[exchange])
        n == user_callback(exchange, ev)
    IN  on_order_update_logic(World, exchange, n.event_type, ev.oid,
                              n.filled_qty, TRUE, prices, now)

\* Handling the oldest message of the stream would place an order and the
\* venues of the model have no id left.
DeliveryBlocked(exchange) ==
    /\ events[exchange] # <<>>
    /\ user_callback(exchange, Head(events[exchange])).event_type # "none"
    /\ HandledWorld(exchange).log.placed # <<>>
    /\ Len(orders) >= MaxOrders

\* One user-stream message handed to the venue's callback.
DeliverToHandler ==
    /\ \E exchange \in Exchanges :
          /\ events[exchange] # <<>>
          /\ ~DeliveryBlocked(exchange)
          /\ LET ev == Head(events[exchange])
                 n == user_callback(exchange, ev)
                 w2 == HandledWorld(exchange)
             IN  /\ events' = [events EXCEPT ![exchange] = Tail(@)]
                 /\ IF n.event_type = "none"
                    THEN /\ last_call' = NoCall
                         /\ UNCHANGED <<sm, orders, cancel_reqs>>
                    ELSE Apply(w2, Call("on_order_update_logic", exchange,
                                        n.event_type, ev.oid, n.filled_qty, w2))
    /\ UNCHANGED <<prices, pc, started>>

LiveNext ==
    \/ Advance
    \/ Tick
    \/ DeliverToHandler
    \/ VenueProgress
    \/ VenueFill
    \/ VenueCancel
    \/ VenueExpire

LiveSpec ==
    /\ LiveInit
    /\ [][LiveNext]_vars
    /\ WF_vars(Advance)
    /\ WF_vars(Tick)
    /\ WF_vars(DeliverToHandler)
    /\ WF_vars(VenueFill)
    /\ WF_vars(VenueCancel)

\* ---------------------------------------------------- concurrent callers
\* Two threads call check_and_execute_open (check_and_execute_close) at the
\* same time, in OpenCondition (CloseCondition with a position that rounds
\* to a positive quantity) and with books for which the signal is true.
\* Here pc maps each thread to its position in the call, or to how its call
\* ended: "placed" (order id obtained), "failed" (placement sent, no id) or
\* "returned" (no placement sent).
Threads == {1, 2}

ConcDone == {"placed", "failed", "returned"}

ConcInit ==
    /\ sm \in {m \in UnitMachines :
                 /\ m.current_state \in ConditionStates
                 /\ m.active_order_id = None
                 /\ m.active_order_time = now - OrderHorizon
                 /\ m.chase_retry_count = 0
                 /\ m.current_state = CloseCondition
                    => round_qty(m.current_position, Hyperliquid) > 0}
    /\ orders = <<>>
    /\ prices \in {pb \in UnitPrices :
                     IF sm.current_state = OpenCondition
                     THEN open_signal(pb, now) ELSE close_signal(pb, now)}
    /\ events = [e \in Exchanges |-> <<>>]
    /\ cancel_reqs = {}
    /\ pc = [t \in Threads |->
               IF sm.current_state = OpenCondition
               THEN "open_get_state" ELSE "close_get_state"]
    /\ started = "running"
    /\ last_call = NoCall

\* if self.get_state() != StrategyState.OpenCondition: return
ConcGetState(t) ==
    /\ pc[t] \in {"open_get_state", "close_get_state"}
    /\ pc' = [pc EXCEPT ![t] =
                IF @ = "open_get_state"
                THEN IF sm.current_state # OpenCondition
                     THEN "returned" ELSE "open_signal"
                ELSE IF sm.current_state # CloseCondition
                     THEN "returned" ELSE "close_signal"]
    /\ last_call' = NoCall
    /\ UNCHANGED <<sm, prices, orders, events, cancel_reqs, started>>

\* if signal_func():
ConcSignal(t) ==
    /\ pc[t] \in {"open_signal", "close_signal"}
    /\ pc' = [pc EXCEPT ![t] =
                IF @ = "open_signal"
                THEN IF open_signal(prices, now) THEN "open_lock" ELSE "returned"
                ELSE IF close_signal(prices, now) THEN "close_lock" ELSE "returned"]
    /\ last_call' = NoCall
    /\ UNCHANGED <<sm, prices, orders, events, cancel_reqs, started>>

\* with self.lock: ... ; the lock admits one thread at a time.
ConcLock(t) ==
    /\ pc[t] \in {"open_lock", "close_lock"}
    /\ \E ok \in BOOLEAN :
          /\ CanPlace(ok)
          /\ LET w2 == IF pc[t] = "open_lock"
                       THEN open_locked(World, ok, prices, now)
                       ELSE close_locked(World, ok, prices, now)
                 op == IF pc[t] = "open_lock"
                       THEN "check_and_execute_open"
                       ELSE "check_and_execute_close"
             IN  /\ Apply(w2, Call(op, "-", "-", None, 0, w2))
                 /\ pc' = [pc EXCEPT ![t] =
                             IF w2.log.placed = <<>> THEN "returned"
                             ELSE IF w2.sm.active_order_id # None
                             THEN "placed" ELSE "failed"]
    /\ UNCHANGED <<prices, events, started>>

ConcNext ==
    \E t \in Threads : ConcGetState(t) \/ ConcSignal(t) \/ ConcLock(t)

ConcSpec == ConcInit /\ [][ConcNext]_vars

\* ====================================================================
\* Properties
\* ====================================================================
IsOrderUpdate == last_call.op = "on_order_update_logic"

\* The handler was called for the machine's active order.
Matched == IsOrderUpdate /\ last_call.pre.active_order_id # None
           /\ last_call.order_id = last_call.pre.active_order_id

\* The order a user-stream event is about.
OrderOf(oid) == orders[CHOOSE i \in DOMAIN orders : orders[i].oid = oid]
IsOrder(oid) == \E i \in DOMAIN orders : orders[i].oid = oid

\* inc of the last handler call: max(0, cum - last_cum_filled_qty[id]).
LastInc ==
    LET d == last_call.filled_qty
             - DictGet(last_call.pre.last_cum_filled_qty, last_call.order_id, 0)
    IN  IF d < 0 THEN 0 ELSE d

\* C1: outside the critical section, active_order_id is set if and only if
\* the machine is in one of the eight Leg states.
C1_ActiveIffLegState ==
    (sm.active_order_id # None) <=> (sm.current_state \in LegStates)

\* C2: clean open.  (a) From OpenCondition with no position the signal call
\* places one DEX limit BUY for base_quantity; (b) the DEX AllFilled for
\* base_quantity places a CEX SELL for base_quantity; (c) the CEX FILLED for
\* base_quantity on that Leg-2 order ends in CloseCondition with
\* current_position = base_quantity.
C2_OpenPlacesDexBuy ==
    (/\ last_call.op = "check_and_execute_open"
     /\ last_call.pre.current_state = OpenCondition
     /\ last_call.log.placed # <<>>)
    => /\ Len(last_call.log.placed) = 1
       /\ last_call.log.placed[1].exchange = Hyperliquid
       /\ last_call.log.placed[1].side = "BUY"
       /\ last_call.log.placed[1].quantity = base_quantity
       /\ last_call.log.placed[1].price # NoPrice

C2_DexFillPlacesCexSell ==
    (/\ Matched
     /\ last_call.pre.current_state = OpenLeg1Waiting
     /\ last_call.exchange = Hyperliquid
     /\ last_call.event_type = "ALL_traded"
     /\ last_call.filled_qty = base_quantity)
    => /\ Len(last_call.log.placed) = 1
       /\ last_call.log.placed[1].exchange = Binance
       /\ last_call.log.placed[1].side = "SELL"
       /\ last_call.log.placed[1].quantity = base_quantity

\* The CEX's FILLED(cum) for a Leg-2 SELL order the machine placed heads the
\* CEX user stream, while the machine is in an Open Leg-2 state.
CexFilledOnLeg2(cum) ==
    /\ events[Binance] # <<>>
    /\ LET ev == Head(events[Binance])
       IN  /\ ev.status = "FILLED"
           /\ ev.cum = cum
           /\ IsOrder(ev.oid)
           /\ OrderOf(ev.oid).exchange = Binance
           /\ OrderOf(ev.oid).side = "SELL"
           /\ OrderOf(ev.oid).qty = cum
    /\ sm.current_state \in {OpenLeg2Waiting, OpenLeg2Chasing}
    /\ sm.leg1_filled_qty = cum

\* Taking that message off the stream ends the episode.
C2_CexFillCompletes ==
    (Received(Binance) /\ CexFilledOnLeg2(base_quantity))
    => /\ sm'.current_state = CloseCondition
       /\ sm'.current_position = base_quantity

\* C2 as one property: the two placements in every state, the completion in
\* every step.
C2_CleanOpen ==
    /\ []C2_OpenPlacesDexBuy
    /\ []C2_DexFillPlacesCexSell
    /\ [][C2_CexFillCompletes]_vars

\* C3: in OpenLeg1Canceling (timeout fired, cancel issued) the DEX's
\* PartialFilledCanceled(q > 0) for the active order launches Leg 2, a CEX
\* SELL for q; the CEX FILLED(q) for that order then ends in CloseCondition
\* with current_position = q.
C3_PartialLaunchesLeg2 ==
    (/\ Matched
     /\ last_call.pre.current_state = OpenLeg1Canceling
     /\ last_call.exchange = Hyperliquid
     /\ last_call.event_type = "PARTIAL_filled_canceled"
     /\ last_call.filled_qty > 0)
    => /\ Len(last_call.log.placed) = 1
       /\ last_call.log.placed[1].exchange = Binance
       /\ last_call.log.placed[1].side = "SELL"
       /\ last_call.log.placed[1].quantity = last_call.filled_qty

C3_PartialThenCexFill ==
    \A q \in PartialQtys :
        (Received(Binance) /\ CexFilledOnLeg2(q))
        => /\ sm'.current_state = CloseCondition
           /\ sm'.current_position = q

\* C3 as one property: the launch in every state, the completion in every
\* step that takes the CEX's FILLED off the stream.
C3_PartialAfterCancel ==
    /\ []C3_PartialLaunchesLeg2
    /\ [][C3_PartialThenCexFill]_vars

\* C4: cancel race.  In OpenLeg1Canceling the DEX's AllFilled(cum) for the
\* active order launches Leg 2 on the CEX (a SELL for cum), moves the machine
\* to OpenLeg2Chasing, adds the fill increment to current_position and does
\* not reset chase_retry_count (it grows by one when the placement succeeds).
C4_RaceCase ==
    /\ Matched
    /\ last_call.pre.current_state = OpenLeg1Canceling
    /\ last_call.event_type = "ALL_traded"

C4_CancelRace ==
    C4_RaceCase
    => /\ sm.current_state = OpenLeg2Chasing
       /\ sm.current_position = last_call.pre.current_position + LastInc
       /\ Len(last_call.log.placed) = 1
       /\ last_call.log.placed[1].exchange = Binance
       /\ last_call.log.placed[1].side = "SELL"
       /\ last_call.log.placed[1].quantity = last_call.filled_qty
       /\ sm.leg1_filled_qty = last_call.filled_qty
       /\ sm.chase_retry_count =
             last_call.pre.chase_retry_count
             + (IF last_call.log.placed[1].ok THEN 1 ELSE 0)

C4_Witness ==
    /\ C4_RaceCase
    /\ last_call.filled_qty = base_quantity
    /\ LastInc = base_quantity
    /\ last_call.log.placed # <<>>
    /\ last_call.log.placed[1].ok

\* C7: at any instant at most one order placed by the machine is live
\* (accepted by a venue and neither filled nor canceled), whatever the
\* interleaving of feed callbacks, user-stream events and sweeps.
C7_AtMostOneLiveOrder == Cardinality(LiveOrders) <= 1

\* Two orders were placed, and the second went out only after the first
\* had ended.
C7_Witness ==
    /\ Len(orders) >= 2
    /\ Cardinality(LiveOrders) = 1
    /\ orders[1].status # "live"

Abs(x) == IF x < 0 THEN 0 - x ELSE x

ChaseTarget(c) ==
    c.market_price * (IF c.side = "SELL"
                      THEN ChaseAdjScale - (c.count + 1)
                      ELSE ChaseAdjScale + (c.count + 1))

C10_ChaseStepOrderType ==
    \A i \in DOMAIN last_call.log.chase :
        LET c == last_call.log.chase[i]
        IN  /\ c.market_price = get_price(prices, Binance,
                                          IF c.side = "SELL" THEN "bid" ELSE "ask", now)
            /\ (c.market_price # NoPrice /\ c.count < max_chase_retries)
               => /\ c.price # NoPrice
                  /\ 2 * Abs(c.price * ChaseAdjScale - ChaseTarget(c))
                        <= ChaseAdjScale * PriceStep
            /\ (c.market_price = NoPrice \/ c.count >= max_chase_retries)
               => c.price = NoPrice
            /\ \E j \in DOMAIN last_call.log.placed :
                  /\ last_call.log.placed[j].exchange = Binance
                  /\ last_call.log.placed[j].side = c.side
                  /\ last_call.log.placed[j].price = c.price
                  /\ last_call.log.placed[j].ok = c.success
            /\ c.success
               => /\ c.after.chase_retry_count = c.count + 1
                  /\ IsOrder(c.after.active_order_id)
                  /\ OrderOf(c.after.active_order_id).price = c.price
                  /\ OrderOf(c.after.active_order_id).side = c.side
                  /\ c.after.active_order_time = now

\* A third rung of the ladder: a priced BUY at chase_retry_count 2 that the
\* venue accepted.
C10_Witness ==
    \E i \in DOMAIN last_call.log.chase :
        LET c == last_call.log.chase[i]
        IN  /\ c.side = "BUY"
            /\ c.market_price # NoPrice
            /\ c.count = max_chase_retries - 1
            /\ c.price # NoPrice
            /\ c.price > c.market_price
            /\ c.success

\* C11: chase ladder end to end.  In an Open episode, each ALL_canceled the
\* CEX sends for a Leg-2 limit order makes the machine place the next rung:
\* after k canceled limit orders (k = 1, 2) a limit SELL priced 0.1% * (k+1)
\* below the best bid, after the third a market SELL (no price); the FILLED
\* for the target quantity on the market order ends in CloseCondition.
BinanceOrders == {i \in DOMAIN orders : orders[i].exchange = Binance}

\* The CEX has canceled an unfilled Leg-2 limit SELL of an Open episode whose
\* Leg 1 filled the target, and its CANCELED message heads the user stream.
C11_LimitCanceled ==
    /\ events[Binance] # <<>>
    /\ LET ev == Head(events[Binance])
       IN  /\ ev.status = "CANCELED"
           /\ ev.cum = 0
           /\ IsOrder(ev.oid)
           /\ OrderOf(ev.oid).exchange = Binance
           /\ OrderOf(ev.oid).side = "SELL"
           /\ OrderOf(ev.oid).price # NoPrice
           /\ OrderOf(ev.oid).status = "canceled"
    /\ sm.current_state \in {OpenLeg2Waiting, OpenLeg2Chasing}
    /\ sm.leg1_filled_qty = base_quantity

\* The handler has placed the next rung of the ladder.
C11_RungPlaced ==
    /\ IsOrderUpdate
    /\ Len(last_call.log.placed) = 1
    /\ LET req == last_call.log.placed[1]
           k == Cardinality(BinanceOrders) - (IF req.ok THEN 1 ELSE 0)
           bid == get_price(prices, Binance, "bid", now)
       IN  /\ req.exchange = Binance
           /\ req.side = "SELL"
           /\ req.quantity = base_quantity
           /\ (k >= max_chase_retries) => req.price = NoPrice
           /\ (k < max_chase_retries /\ bid # NoPrice)
              => 2 * Abs(req.price * ChaseAdjScale - bid * (ChaseAdjScale - (k + 1)))
                    <= ChaseAdjScale * PriceStep
    /\ sm.current_state = OpenLeg2Chasing

\* The CEX has filled a Leg-2 market SELL for the target quantity, and its
\* FILLED message heads the user stream.
C11_MarketFilled ==
    /\ events[Binance] # <<>>
    /\ LET ev == Head(events[Binance])
       IN  /\ ev.status = "FILLED"
           /\ IsOrder(ev.oid)
           /\ OrderOf(ev.oid).exchange = Binance
           /\ OrderOf(ev.oid).side = "SELL"
           /\ OrderOf(ev.oid).price = NoPrice
           /\ ev.cum = sm.leg1_filled_qty
    /\ sm.current_state \in {OpenLeg2Waiting, OpenLeg2Chasing}

\* C11 as one step property: taking such a CANCELED message off the stream
\* places the next rung and leaves OpenLeg2Chasing; taking such a FILLED
\* message off the stream ends in CloseCondition.
C11_ChaseLadder ==
    [][/\ (Received(Binance) /\ C11_LimitCanceled) => C11_RungPlaced'
       /\ (Received(Binance) /\ C11_MarketFilled) => (sm'.current_state = CloseCondition)]_vars

\* now - active_order_time > order_timeout_sec
TimedOut(m) == now - m.active_order_time > order_timeout_sec

\* C12: a sweep that finds active_order_id set, the state OpenLeg1Waiting
\* (CloseLeg1Waiting) and the order older than order_timeout_sec moves the
\* machine to OpenLeg1Canceling (CloseLeg1Canceling), changes no other field
\* and issues exactly one cancel, of active_order_id on the DEX; a sweep
\* that finds active_order_id null, or the order not older than
\* order_timeout_sec, changes nothing and issues no cancel.
C12_Leg1TimeoutSweep ==
    [][Tick =>
        /\ (/\ sm.active_order_id # None
            /\ sm.current_state \in {OpenLeg1Waiting, CloseLeg1Waiting}
            /\ TimedOut(sm))
           => /\ sm' = [sm EXCEPT !.current_state =
                           IF @ = OpenLeg1Waiting THEN OpenLeg1Canceling
                           ELSE CloseLeg1Canceling]
              /\ last_call'.log.cancels = {<<Hyperliquid, sm.active_order_id>>}
              /\ cancel_reqs' = cancel_reqs \cup {<<Hyperliquid, sm.active_order_id>>}
              /\ last_call'.log.placed = <<>>
              /\ orders' = orders
        /\ (sm.active_order_id = None \/ ~TimedOut(sm))
           => /\ UNCHANGED <<sm, orders, cancel_reqs>>
              /\ last_call'.log = EmptyLog
    ]_vars

\* A sweep has just moved a timed-out CloseLeg1Waiting order to
\* CloseLeg1Canceling and asked the DEX to cancel it.
C12_Witness ==
    /\ last_call.op = "on_tick_check"
    /\ last_call.pre.current_state = CloseLeg1Waiting
    /\ sm.current_state = CloseLeg1Canceling
    /\ <<Hyperliquid, sm.active_order_id>> \in cancel_reqs
    /\ sm.active_order_id # None

\* C13: a sweep that finds a Leg-2 state and an active order older than
\* order_timeout_sec issues one cancel of that order on the CEX and changes
\* no field of the machine and places nothing; the ALL_canceled or
\* PARTIAL_filled_canceled event for that order is what places the next
\* chase order (one CEX order for the remaining quantity, when that
\* quantity does not round to zero) and moves the machine to the Chasing state.
C13_Remaining ==
    last_call.pre.leg1_filled_qty
    - (IF last_call.event_type = "PARTIAL_filled_canceled"
       THEN last_call.filled_qty ELSE last_call.pre.leg2_filled_qty)

C13_EventChases ==
    (/\ Matched
     /\ last_call.pre.current_state \in Leg2States
     /\ last_call.event_type \in {"ALL_canceled", "PARTIAL_filled_canceled"}
     /\ round_qty(C13_Remaining, Binance) > 0)
    => /\ Len(last_call.log.placed) = 1
       /\ last_call.log.placed[1].exchange = Binance
       /\ last_call.log.placed[1].side =
             (IF last_call.pre.current_state \in {OpenLeg2Waiting, OpenLeg2Chasing}
              THEN "SELL" ELSE "BUY")
       /\ last_call.log.placed[1].quantity = round_qty(C13_Remaining, Binance)
       /\ sm.current_state =
             (IF last_call.pre.current_state \in {OpenLeg2Waiting, OpenLeg2Chasing}
              THEN OpenLeg2Chasing ELSE CloseLeg2Chasing)

C13_Leg2TimeoutSweep ==
    [][/\ (/\ Tick
           /\ sm.active_order_id # None
           /\ sm.current_state \in Leg2States
           /\ TimedOut(sm))
          => /\ sm' = sm
             /\ last_call'.log.cancels = {<<Binance, sm.active_order_id>>}
             /\ cancel_reqs' = cancel_reqs \cup {<<Binance, sm.active_order_id>>}
             /\ last_call'.log.placed = <<>>
             /\ orders' = orders
       /\ C13_EventChases'
    ]_vars

\* The CEX's ALL_canceled for the active Leg-2 order, canceled on the
\* sweep's request, has just placed the next chase order.
C13_Witness ==
    /\ Matched
    /\ last_call.exchange = Binance
    /\ last_call.pre.current_state = OpenLeg2Waiting
    /\ last_call.event_type = "ALL_canceled"
    /\ IsOrder(last_call.order_id)
    /\ OrderOf(last_call.order_id).status = "canceled"
    /\ Len(last_call.log.placed) = 1
    /\ last_call.log.placed[1].ok
    /\ sm.current_state = OpenLeg2Chasing
    /\ sm.active_order_id # last_call.order_id

\* C14: once a sweep's cancel has failed (the request is gone, the order
\* still rests and no terminal event is on its way), every later sweep that
\* finds the order still active and older than order_timeout_sec issues
\* the cancel again, in the Leg-1 states as in the Leg-2 states: in every
\* such state on_tick_check sends a cancel of the active order to its venue.
C14_CancelFailed ==
    /\ sm.active_order_id # None
    /\ TimedOut(sm)
    /\ sm.current_state \in Leg1States \cup Leg2States
    /\ IsOrder(sm.active_order_id)
    /\ OrderOf(sm.active_order_id).status = "live"
    /\ \A req \in cancel_reqs : req[2] # sm.active_order_id
    /\ \A e \in Exchanges : events[e] = <<>>

C14_CancelRetry ==
    C14_CancelFailed
    => <<OrderOf(sm.active_order_id).exchange, sm.active_order_id>>
          \in on_tick_check(World, now).log.cancels

\* The last call was a signal-entry call (its critical section was entered).
IsOpenCall == last_call.op = "check_and_execute_open"
IsCloseCall == last_call.op = "check_and_execute_close"

\* The order the last call got accepted: the newest one.
NewestOrder == orders[Len(orders)]

\* C15: when the Leg-1 placement of check_and_execute_open (or
\* check_and_execute_close) yields no order id, every field of the machine
\* is as before the call (state still the Condition state, active_order_id,
\* leg quantities, current_position, chase_retry_count, last_cum_filled_qty)
\* and no order rests anywhere new, so that the next signal places again.
C15_SignalPlacementFailure ==
    (/\ IsOpenCall \/ IsCloseCall
     /\ last_call.log.placed # <<>>
     /\ ~last_call.log.placed[1].ok)
    => /\ sm = last_call.pre
       /\ sm.current_state = (IF IsOpenCall THEN OpenCondition ELSE CloseCondition)
       /\ Len(last_call.log.placed) = 1
       /\ last_call.log.cancels = {}
       /\ (IF IsOpenCall
           THEN open_locked(World, TRUE, prices, now).log.placed # <<>>
           ELSE close_locked(World, TRUE, prices, now).log.placed # <<>>)

\* A failed Leg-1 BUY placement from OpenCondition with no active order.
C15_Witness ==
    /\ IsOpenCall
    /\ last_call.log.placed # <<>>
    /\ ~last_call.log.placed[1].ok
    /\ sm.current_state = OpenCondition
    /\ sm.active_order_id = None

\* C18: check_and_execute_open reaches its critical section only after the
\* signal returned true; there it places only in OpenCondition and with a
\* fresh DEX bid, exactly one limit BUY on the DEX at that bid for
\* round(base_quantity); when the placement succeeds active_order_id is the
\* new id, active_order_time = now, leg1_filled_qty = 0,
\* last_cum_filled_qty[id] = 0 and the state is OpenLeg1Waiting; in every
\* other case the machine is unchanged.
C18_OpenEffect ==
    IsOpenCall
    => LET pre == last_call.pre
           bid == get_price(prices, Hyperliquid, "bid", now)
           placed == last_call.log.placed
       IN  IF pre.current_state = OpenCondition /\ bid # NoPrice
           THEN /\ Len(placed) = 1
                /\ placed[1].exchange = Hyperliquid
                /\ placed[1].side = "BUY"
                /\ placed[1].quantity = round_qty(base_quantity, Hyperliquid)
                /\ placed[1].price = round_price(bid, 1, Hyperliquid)
                /\ IF placed[1].ok
                   THEN /\ NewestOrder.exchange = Hyperliquid
                        /\ NewestOrder.status = "live"
                        /\ sm = [pre EXCEPT
                                   !.current_state = OpenLeg1Waiting,
                                   !.active_order_id = NewestOrder.oid,
                                   !.active_order_time = now,
                                   !.leg1_filled_qty = 0,
                                   !.last_cum_filled_qty =
                                       DictPut(@, NewestOrder.oid, 0)]
                   ELSE sm = pre
           ELSE placed = <<>> /\ sm = pre

C18_CheckAndExecuteOpen ==
    [][/\ (pc # "open_lock" /\ pc' = "open_lock") => open_signal(prices, now)
       /\ (IsOpenCall' /\ last_call'.log.placed # <<>>) => pc = "open_lock"
       /\ C18_OpenEffect'
    ]_vars

\* A successful Leg-1 BUY that found leg1_filled_qty left over and reset it.
C18_Witness ==
    /\ IsOpenCall
    /\ last_call.log.placed # <<>>
    /\ last_call.log.placed[1].ok
    /\ last_call.pre.leg1_filled_qty = base_quantity
    /\ sm.leg1_filled_qty = 0
    /\ sm.current_state = OpenLeg1Waiting
    /\ sm.active_order_id = NewestOrder.oid

\* C19: check_and_execute_close reaches its critical section only after the
\* close signal returned true; there it places only in CloseCondition with
\* current_position > 0 and a fresh DEX ask, one limit SELL on the DEX at
\* that ask for round(current_position); when the placement succeeds the
\* state is CloseLeg1Waiting, active_order_id is the new id and
\* leg1_filled_qty = 0; in every other case the machine is unchanged.
C19_CloseEffect ==
    IsCloseCall
    => LET pre == last_call.pre
           ask == get_price(prices, Hyperliquid, "ask", now)
           placed == last_call.log.placed
       IN  /\ placed # <<>>
              => /\ pre.current_state = CloseCondition
                 /\ pre.current_position > 0
                 /\ ask # NoPrice
                 /\ Len(placed) = 1
                 /\ placed[1].exchange = Hyperliquid
                 /\ placed[1].side = "SELL"
                 /\ placed[1].quantity = round_qty(pre.current_position, Hyperliquid)
                 /\ placed[1].price = round_price(ask, 1, Hyperliquid)
           /\ IF placed # <<>> /\ placed[1].ok
              THEN /\ NewestOrder.exchange = Hyperliquid
                   /\ sm = [pre EXCEPT
                              !.current_state = CloseLeg1Waiting,
                              !.active_order_id = NewestOrder.oid,
                              !.active_order_time = now,
                              !.leg1_filled_qty = 0,
                              !.last_cum_filled_qty =
                                  DictPut(@, NewestOrder.oid, 0)]
              ELSE sm = pre
           /\ (/\ pre.current_state = CloseCondition
               /\ pre.current_position > 0
               /\ ask # NoPrice
               /\ round_qty(pre.current_position, Hyperliquid) > 0)
              => placed # <<>>

C19_CheckAndExecuteClose ==
    [][/\ (pc # "close_lock" /\ pc' = "close_lock") => close_signal(prices, now)
       /\ (IsCloseCall' /\ last_call'.log.placed # <<>>) => pc = "close_lock"
       /\ C19_CloseEffect'
    ]_vars

\* A successful Leg-1 SELL of a position that is not a multiple of the
\* quantity step: 0.0006 held, round(0.0006, 3) = 0.001 offered.
C19_Witness ==
    /\ IsCloseCall
    /\ last_call.log.placed # <<>>
    /\ last_call.log.placed[1].ok
    /\ last_call.pre.current_position = 6
    /\ last_call.log.placed[1].quantity = base_quantity
    /\ sm.current_state = CloseLeg1Waiting
    /\ sm.active_order_id = NewestOrder.oid

\* C17: an order event whose order_id differs from active_order_id, or that
\* arrives while active_order_id is null, is dropped: no field of the
\* machine changes (current_state, leg1_filled_qty, leg2_filled_qty,
\* current_position, chase_retry_count, active_order_id, active_order_time,
\* last_cum_filled_qty), no order is placed and no cancel is requested.
C17_Unmatched ==
    /\ IsOrderUpdate
    /\ \/ last_call.pre.active_order_id = None
       \/ last_call.order_id # last_call.pre.active_order_id

C17_UnmatchedEventDropped ==
    [][C17_Unmatched'
       => /\ sm' = last_call'.pre
          /\ last_call'.log = EmptyLog
          /\ UNCHANGED <<sm, orders, cancel_reqs>>
    ]_vars

\* A terminal event for order o2 reached the handler while o1 was the active
\* order of a Leg-1 Waiting state.
C17_Witness ==
    /\ C17_Unmatched
    /\ last_call.pre.active_order_id = OrderIdOf(1)
    /\ last_call.order_id = OrderIdOf(2)
    /\ last_call.event_type = "ALL_traded"
    /\ sm.current_state = OpenLeg1Waiting

\* The chase placements of the last call that yielded no order id.
C16_FailedChases ==
    {i \in DOMAIN last_call.log.chase : ~last_call.log.chase[i].success}

\* C16 as stated: after a chase placement that yields no order id the
\* machine is in OpenLeg2Chasing or CloseLeg2Chasing with
\* active_order_id = null, and on_tick_check does nothing.
C16_StuckWithNullId ==
    C16_FailedChases # {}
    => /\ sm.current_state \in {OpenLeg2Chasing, CloseLeg2Chasing}
       /\ sm.active_order_id = None
       /\ on_tick_check(World, now) = World

\* C16, amended: a chase placement that yields no order id changes no field
\* of the machine: current_state, active_order_id, active_order_time,
\* chase_retry_count and last_cum_filled_qty are as the caller left them.
\* After a Leg-1 handler (_start_leg2_open, _start_leg2_close) that is the
\* Leg-2 state the handler chose, Leg2Waiting for a first hedge and
\* Leg2Chasing after a cancel race, with active_order_id null, and
\* on_tick_check does nothing.  After a Leg-2 cancel event it is the
\* Chasing state with active_order_id still the id of the canceled order, so
\* that on_tick_check, once the timeout has passed, requests a cancel of
\* that order again.
C16_ChasePlacementFailure ==
    \A i \in C16_FailedChases :
        LET c == last_call.log.chase[i]
        IN  /\ c.after = c.before
            /\ sm.current_state = c.before.current_state
            /\ sm.current_state \in Leg2States
            /\ sm.chase_retry_count = c.count
            /\ IF last_call.pre.current_state \in Leg2States
               THEN /\ sm.current_state \in {OpenLeg2Chasing, CloseLeg2Chasing}
                    /\ sm.active_order_id = last_call.order_id
                    /\ sm.active_order_time = last_call.pre.active_order_time
                    /\ TimedOut(sm)
                       => on_tick_check(World, now).log.cancels
                             = {<<Binance, sm.active_order_id>>}
               ELSE /\ sm.current_state \in {OpenLeg2Waiting, CloseLeg2Waiting}
                       <=> (last_call.pre.current_state
                               \in {OpenLeg1Waiting, CloseLeg1Waiting})
                    /\ sm.active_order_id = None
                    /\ on_tick_check(World, now) = World

\* The CEX canceled the hedge order o1, the next chase placement failed, and
\* o1 is still the active order of OpenLeg2Chasing.
C16_Witness ==
    /\ IsOrderUpdate
    /\ last_call.event_type = "ALL_canceled"
    /\ last_call.pre.current_state = OpenLeg2Waiting
    /\ C16_FailedChases # {}
    /\ sm.current_state = OpenLeg2Chasing
    /\ sm.active_order_id = OrderIdOf(1)
    /\ TimedOut(sm)

\* How many of the two calls ended in the given way.
ConcCount(outcome) == Cardinality({t \in Threads : pc[t] = outcome})

ConcAllDone == \A t \in Threads : pc[t] \in ConcDone

C21_SignalTrueUnderLock ==
    (IsOpenCall /\ last_call.log.placed # <<>>) => open_signal(prices, now)

\* A venue's ticker is uninitialized or older than max_delay.
Stale(e) ==
    prices[e].bid_price = 0 \/ now - prices[e].timestamp > max_delay_seconds

AnyStale == \E e \in Exchanges : Stale(e)

\* The cancel a sweep owes to a timed-out active order.
SweepDue ==
    /\ sm.active_order_id # None
    /\ sm.current_state \in {OpenLeg1Waiting, CloseLeg1Waiting} \cup Leg2States
    /\ TimedOut(sm)

\* C22: while either venue's ticker is uninitialized or older than max_delay,
\* get_spread and get_spread_with_fees return (none, none) and both signals
\* are false; a call of check_and_execute_open / check_and_execute_close
\* whose signal is evaluated then goes no further and places nothing; and
\* on_tick_check still requests the cancel of a timed-out active order.
C22_StaleBoard ==
    AnyStale
    => /\ ~get_spread(prices, now).valid
       /\ ~get_spread_with_fees(prices, now).valid
       /\ ~open_signal(prices, now)
       /\ ~close_signal(prices, now)
       /\ SweepDue
          => on_tick_check(World, now).log.cancels
                = {<<IF sm.current_state \in Leg2States THEN Binance
                     ELSE Hyperliquid, sm.active_order_id>>}

C23_PriceBoardGuard ==
    LET cex == prices[Binance]
        dex == prices[Hyperliquid]
        s == get_spread(prices, now)
        f == get_spread_with_fees(prices, now)
    IN  /\ \A e \in Exchanges :
              IF Stale(e)
              THEN /\ get_price(prices, e, "bid", now) = NoPrice
                   /\ get_price(prices, e, "ask", now) = NoPrice
              ELSE /\ get_price(prices, e, "bid", now) = prices[e].bid_price
                   /\ get_price(prices, e, "ask", now) = prices[e].ask_price
        /\ IF AnyStale
           THEN ~s.valid /\ ~f.valid
           ELSE /\ s.valid
                /\ s.a = dex.bid_price - cex.ask_price
                /\ s.b = cex.bid_price - dex.ask_price
                /\ f.valid
                /\ f.a = dex.bid_price * (FeeScale - hyper_maker_fee)
                         - cex.ask_price * (FeeScale + binance_taker_fee)
                /\ f.b = cex.bid_price * (FeeScale - binance_maker_fee)
                         - dex.ask_price * (FeeScale + hyper_taker_fee)

\* get_price returned the stored bid of a Hyperliquid ticker exactly
\* max_delay old (the open order went out at it) while the Binance ticker,
\* one second older, was stale.
C23_Witness ==
    /\ IsOpenCall
    /\ last_call.log.placed # <<>>
    /\ last_call.log.placed[1].price = prices[Hyperliquid].bid_price
    /\ now - prices[Hyperliquid].timestamp = max_delay_seconds
    /\ Stale(Binance)
    /\ prices[Binance].bid_price # 0

\* The last step was the startup reconciler.
IsReconcile == last_call.op = "Req_Investment_position"

\* C24: with the positions the venues report at startup: none on either venue,
\* the machine starts in OpenCondition; CEX short and DEX long of equal size,
\* it starts in CloseCondition; any other combination (one side only, wrong
\* sides, short/long of different sizes), the reconciler returns
\* (false, none), the machine is as constructed and the program exits.
C24_ReconcileMatrix ==
    (IsReconcile /\ last_call.binance_ok /\ last_call.hyper_ok)
    => LET b == last_call.binance_amt
           h == last_call.hyper_amt
       IN  IF b = 0 /\ h = 0
           THEN /\ last_call.valid
                /\ last_call.initial_state = OpenCondition
                /\ sm.current_state = OpenCondition
                /\ started = "running"
           ELSE IF b < 0 /\ h > 0 /\ 0 - b = h
           THEN /\ last_call.valid
                /\ last_call.initial_state = CloseCondition
                /\ sm.current_state = CloseCondition
                /\ started = "running"
           ELSE /\ ~last_call.valid
                /\ last_call.initial_state = None
                /\ sm = last_call.pre
                /\ started = "refused"

\* C25: when the reconciler starts the machine in CloseCondition (CEX short
\* and DEX long of equal size), current_position is the size of the DEX
\* position; when it starts it in OpenCondition, current_position is 0.
C25_ReconciledPosition ==
    (/\ IsReconcile
     /\ last_call.binance_ok /\ last_call.hyper_ok
     /\ last_call.valid
     /\ 0 - last_call.binance_amt = last_call.hyper_amt)
    => sm.current_position =
          (IF sm.current_state = CloseCondition
           THEN Abs(last_call.hyper_amt) ELSE 0)

\* C26: while the engine runs, an active order older than order_timeout is
\* eventually swept: its cancel is requested (or the order is no longer the
\* timed-out active order of a Waiting state), with no market or user-stream
\* event needed.
C26_TimedOutOrderSwept ==
    SweepDue ~> \/ ~SweepDue
                \/ <<IF sm.current_state \in Leg2States THEN Binance
                     ELSE Hyperliquid, sm.active_order_id>> \in cancel_reqs

\* The message ends its order's life: FILLED, CANCELED, EXPIRED or REJECTED
\* on the CEX; canceled, rejected, expired or a filled with cumSz = sz on
\* the DEX.
IsTerminal(exchange, ev) ==
    IF exchange = Binance
    THEN ev.status \in {"FILLED", "CANCELED", "EXPIRED", "REJECTED"}
    ELSE \/ ev.status \in {"canceled", "cancelled", "rejected", "expired"}
         \/ ev.status = "filled" /\ ev.cum = ev.sz

\* C27: every terminal order event received on a venue's user stream is
\* handed, through the venue's callback, to on_order_update_logic: the step
\* that takes the message off the stream is a call of the handler for that
\* venue and that order id.
C27_TerminalEventDispatched ==
    [][\A exchange \in Exchanges :
          (Received(exchange) /\ IsTerminal(exchange, Head(events[exchange])))
          => /\ last_call'.op = "on_order_update_logic"
             /\ last_call'.exchange = exchange
             /\ last_call'.order_id = Head(events[exchange]).oid]_vars

\* The handler call the normalizer owes a terminal message: a complete fill
\* is ALL_traded with the cumulative quantity, any other terminal status is
\* PARTIAL_filled_canceled with the cumulative quantity when something
\* traded and ALL_canceled when nothing did.
ExpectedCall(exchange, ev) ==
    IF ev.status \in {"FILLED", "filled"}
    THEN [event_type |-> "ALL_traded", filled_qty |-> ev.cum]
    ELSE IF ev.cum > 0
    THEN [event_type |-> "PARTIAL_filled_canceled", filled_qty |-> ev.cum]
    ELSE [event_type |-> "ALL_canceled", filled_qty |-> 0]

\* C28: a terminal user-stream message that reaches the venue's callback
\* becomes one call of on_order_update_logic, for the message's order id:
\* ALL_traded(cum) for a complete fill, PARTIAL_filled_canceled(cum) for
\* canceled, expired or rejected with cum > 0, ALL_canceled for canceled,
\* expired or rejected with nothing filled.
C28_NormalizerMapping ==
    [][\A exchange \in Exchanges :
          (/\ Received(exchange)
           /\ on_message(exchange, Head(events[exchange]))
           /\ IsTerminal(exchange, Head(events[exchange])))
          => LET ev == Head(events[exchange])
                 x == ExpectedCall(exchange, ev)
             IN  /\ last_call'.op = "on_order_update_logic"
                 /\ last_call'.exchange = exchange
                 /\ last_call'.order_id = ev.oid
                 /\ last_call'.event_type = x.event_type
                 /\ last_call'.filled_qty = x.filled_qty]_vars

\* C29: a message that is not terminal (CEX NEW / PARTIALLY_FILLED, DEX
\* "filled" with cumSz # sz) is taken off the stream without any call of
\* on_order_update_logic and without any change of the machine, the orders
\* or the cancel requests; and a DEX "filled" message that does become a
\* handler call has cumSz = sz and becomes ALL_traded.
C29_NonTerminalDropped ==
    [][\A exchange \in Exchanges :
          Received(exchange)
          => LET ev == Head(events[exchange])
             IN  /\ ~IsTerminal(exchange, ev)
                    => /\ last_call'.op = "none"
                       /\ UNCHANGED <<sm, orders, cancel_reqs>>
                 /\ (/\ exchange = Hyperliquid
                     /\ ev.status = "filled"
                     /\ last_call'.op = "on_order_update_logic")
                    => /\ ev.cum = ev.sz
                       /\ last_call'.event_type = "ALL_traded"]_vars

\* A partial-fill message for the machine's active DEX order heads the
\* stream, the websocket dispatches it and the callback makes no call of it.
C29_Witness ==
    /\ events[Hyperliquid] # <<>>
    /\ LET ev == Head(events[Hyperliquid])
       IN  /\ ev.status = "filled"
           /\ ev.cum > 0
           /\ ev.cum < ev.sz
           /\ ev.oid = sm.active_order_id
           /\ on_message(Hyperliquid, ev)
           /\ user_callback(Hyperliquid, ev).event_type = "none"
    /\ sm.current_state = OpenLeg1Waiting

\* A step in which on_hyperliquid_l2book writes a book to the PriceBoard.
IsHyperBook ==
    /\ prices'[Hyperliquid] # prices[Hyperliquid]
    /\ prices'[Hyperliquid].timestamp = now
    /\ prices'[Binance] = prices[Binance]

\* A step in which on_binance_l2book calls check_and_execute_open (close).
InvokesOpen == pc # "open_get_state" /\ pc' = "open_get_state"
InvokesClose == pc # "close_get_state" /\ pc' = "close_get_state"

\* C30: only CEX ticks evaluate signals.  A DEX book update writes the
\* PriceBoard and nothing else: it calls neither check_and_execute_open nor
\* check_and_execute_close and leaves the machine and the orders alone, in
\* every machine state.  check_and_execute_open is called only from the CEX
\* callback's open-signal test and only with the machine in OpenCondition,
\* check_and_execute_close only from its close-signal test and only in
\* CloseCondition; neither is called in a Leg state.
C30_OnlyCexTicksEvaluate ==
    [][/\ IsHyperBook
          => /\ pc' = pc
             /\ last_call'.op = "none"
             /\ UNCHANGED <<sm, orders, events, cancel_reqs>>
       /\ InvokesOpen
          => /\ pc = "md_open_signal"
             /\ sm.current_state = OpenCondition
             /\ open_signal(prices, now)
       /\ InvokesClose
          => /\ pc = "md_close_signal"
             /\ sm.current_state = CloseCondition
             /\ close_signal(prices, now)
       /\ (InvokesOpen \/ InvokesClose) => sm.current_state \notin LegStates]_vars

\* The CEX callback has just called check_and_execute_open, in OpenCondition,
\* on a CEX book written this second.
C30_Witness ==
    /\ pc = "open_get_state"
    /\ sm.current_state = OpenCondition
    /\ prices[Binance].timestamp = now
    /\ last_call.op = "none"

\* A DEX book has just been written while the machine is in a Leg state and
\* the board shows an open signal: no signal call is under way.
C30_WitnessDexTick ==
    /\ prices[Hyperliquid].timestamp = now
    /\ prices[Binance].timestamp < now
    /\ sm.current_state \in LegStates
    /\ pc = "idle"

\* C31: a book reaches the PriceBoard only if both sides are present and
\* its best bid is below its best ask; a book with a side missing, or a
\* locked or crossed one, leaves the venue's ticker (prices and receive
\* time) as it was.
C31_CrossedBookDropped ==
    last_call.op = "push_neworder_book"
    => LET book == last_call.book
           sound == ~book.empty /\ book.bid < book.ask
       IN  /\ sound => prices[last_call.exchange] =
                          [bid_price |-> book.bid, ask_price |-> book.ask,
                           timestamp |-> now]
           /\ ~sound => prices[last_call.exchange] = last_call.board[last_call.exchange]
           /\ \A e \in Exchanges \ {last_call.exchange} : prices[e] = last_call.board[e]

\* The handler was called with ALL_canceled for the active order in state s.
CanceledIn(s) ==
    /\ Matched
    /\ last_call.pre.current_state = s
    /\ last_call.event_type = "ALL_canceled"

\* C32: a Leg-1 cancel with no fill returns to searching.  ALL_canceled for
\* the active order in OpenLeg1Canceling, nothing of Leg 1 filled, ends in
\* OpenCondition; in CloseLeg1Canceling it ends in CloseCondition while
\* current_position > 0 and in OpenCondition otherwise.  In both cases
\* active_order_id is cleared, current_position is unchanged and nothing is
\* placed or canceled.
C32_Leg1CancelReturns ==
    /\ (CanceledIn(OpenLeg1Canceling) /\ last_call.pre.leg1_filled_qty = 0)
       => sm.current_state = OpenCondition
    /\ CanceledIn(CloseLeg1Canceling)
       => sm.current_state = (IF last_call.pre.current_position > 0
                              THEN CloseCondition ELSE OpenCondition)
    /\ (CanceledIn(OpenLeg1Canceling) \/ CanceledIn(CloseLeg1Canceling))
       => /\ sm.active_order_id = None
          /\ sm.current_position = last_call.pre.current_position
          /\ last_call.log = EmptyLog

\* The close order was canceled after the position had gone: back to
\* OpenCondition.
C32_Witness ==
    /\ CanceledIn(CloseLeg1Canceling)
    /\ last_call.pre.current_position = 0
    /\ sm.current_state = OpenCondition
    /\ sm.active_order_id = None

\* The open order was canceled unfilled: back to OpenCondition.
C32_WitnessOpen ==
    /\ CanceledIn(OpenLeg1Canceling)
    /\ last_call.pre.leg1_filled_qty = 0
    /\ sm.current_state = OpenCondition

\* In the program, nothing of Leg 1 is booked while in OpenLeg1Canceling.
C32_CancelingHasNoFill ==
    sm.current_state = OpenLeg1Canceling => sm.leg1_filled_qty = 0

\* The last step was a call on the machine (a handler call, a sweep or a
\* signal call that may place an order).
IsMachineCall ==
    last_call.op \in {"on_order_update_logic", "on_tick_check",
                      "check_and_execute_open", "check_and_execute_close"}

\* C33: current_position follows the DEX leg only.  A call on the machine
\* changes it only when it is the handler, called for the active order in a
\* Leg-1 state with ALL_traded or PARTIAL_filled_canceled, and then by
\* inc = max(0, cum - last_cum_filled_qty[id]): added in the open sequence,
\* subtracted in the close sequence.  Events handled in Leg-2 states, sweeps
\* and the signal calls that place orders leave it unchanged.
C33_PositionTracksDexLeg ==
    IsMachineCall
    => /\ sm.current_position # last_call.pre.current_position
          => /\ Matched
             /\ last_call.pre.current_state \in Leg1States
             /\ last_call.event_type \in {"ALL_traded", "PARTIAL_filled_canceled"}
       /\ (Matched /\ last_call.pre.current_state \in {OpenLeg1Waiting, OpenLeg1Canceling})
          => sm.current_position \in {last_call.pre.current_position,
                                      last_call.pre.current_position + LastInc}
       /\ (Matched /\ last_call.pre.current_state \in {CloseLeg1Waiting, CloseLeg1Canceling})
          => sm.current_position \in {last_call.pre.current_position,
                                      last_call.pre.current_position - LastInc}
       /\ (Matched /\ last_call.pre.current_state \in {OpenLeg1Waiting, CloseLeg1Waiting}
                   /\ last_call.event_type # "ALL_canceled")
          => sm.current_position =
                IF last_call.pre.current_state = OpenLeg1Waiting
                THEN last_call.pre.current_position + LastInc
                ELSE last_call.pre.current_position - LastInc

\* A close fill reported after an earlier cumulative 0.0006: the position
\* went down by the increment only, and a CEX order was placed in the call.
C33_Witness ==
    /\ Matched
    /\ last_call.pre.current_state = CloseLeg1Waiting
    /\ last_call.event_type = "ALL_traded"
    /\ last_call.filled_qty = base_quantity
    /\ LastInc = 4
    /\ sm.current_position = last_call.pre.current_position - 4
    /\ Len(last_call.log.placed) = 1

\* A Leg-2 fill handled for the active order: the position did not move.
C33_WitnessLeg2 ==
    /\ Matched
    /\ last_call.pre.current_state = OpenLeg2Waiting
    /\ last_call.event_type = "ALL_traded"
    /\ last_call.filled_qty = base_quantity
    /\ sm.current_state = CloseCondition
    /\ sm.current_position = last_call.pre.current_position

\* The mirror of the open sequence in the close sequence, and back.
MirrorState(s) ==
    CASE s = OpenCondition -> CloseCondition
      [] s = OpenLeg1Waiting -> CloseLeg1Waiting
      [] s = OpenLeg1Canceling -> CloseLeg1Canceling
      [] s = OpenLeg2Waiting -> CloseLeg2Waiting
      [] s = OpenLeg2Chasing -> CloseLeg2Chasing
      [] s = CloseCondition -> OpenCondition
      [] s = CloseLeg1Waiting -> OpenLeg1Waiting
      [] s = CloseLeg1Canceling -> OpenLeg1Canceling
      [] s = CloseLeg2Waiting -> OpenLeg2Waiting
      [] s = CloseLeg2Chasing -> OpenLeg2Chasing

MirrorSide(side) == IF side = "BUY" THEN "SELL" ELSE "BUY"

OpenStates ==
    {OpenCondition, OpenLeg1Waiting, OpenLeg1Canceling, OpenLeg2Waiting, OpenLeg2Chasing}

\* The world the last call started from, and the same world with the
\* machine in the mirrored state and its resting order on the other side.
PreWorld ==
    [sm |-> last_call.pre, orders |-> UnitOrders(last_call.pre),
     cancel_reqs |-> {}, log |-> EmptyLog]

MirrorPreWorld ==
    LET m == [last_call.pre EXCEPT !.current_state = MirrorState(@)]
    IN  [sm |-> m, orders |-> UnitOrders(m), cancel_reqs |-> {}, log |-> EmptyLog]

\* The last call, made on the mirrored world (ok: the venue's answer to a
\* placement).
MirrorRun(ok) ==
    IF last_call.op = "on_tick_check"
    THEN on_tick_check(MirrorPreWorld, now)
    ELSE on_order_update_logic(MirrorPreWorld, last_call.exchange,
                               last_call.event_type, last_call.order_id,
                               last_call.filled_qty, ok, prices, now)

\* r, the outcome in the close sequence, mirrors the outcome of the last
\* call in the open sequence: mirrored state (a return to a Condition state
\* goes by current_position in the close sequence), opposite change of
\* current_position, the same counters and ids, and the same requests with
\* the side swapped.
Mirrors(r) ==
    /\ r.sm.current_state =
          IF sm.current_state \in ConditionStates
             /\ sm.current_state # last_call.pre.current_state
          THEN (IF r.sm.current_position <= 0 THEN OpenCondition ELSE CloseCondition)
          ELSE MirrorState(sm.current_state)
    /\ r.sm.current_position - last_call.pre.current_position
          = last_call.pre.current_position - sm.current_position
    /\ r.sm.leg1_filled_qty = sm.leg1_filled_qty
    /\ r.sm.leg2_filled_qty = sm.leg2_filled_qty
    /\ r.sm.active_order_id = sm.active_order_id
    /\ r.sm.active_order_time = sm.active_order_time
    /\ r.sm.chase_retry_count = sm.chase_retry_count
    /\ r.sm.last_cum_filled_qty = sm.last_cum_filled_qty
    /\ r.log.cancels = last_call.log.cancels
    /\ Len(r.log.placed) = Len(last_call.log.placed)
    /\ \A i \in DOMAIN last_call.log.placed :
          LET a == last_call.log.placed[i]
              b == r.log.placed[i]
          IN  /\ b.exchange = a.exchange
              /\ b.side = MirrorSide(a.side)
              /\ b.quantity = a.quantity
              /\ (b.price = NoPrice) <=> (a.price = NoPrice)
              /\ b.ok = a.ok

C35_NetSpreadAtMostRaw ==
    LET s == get_spread(prices, now)
        f == get_spread_with_fees(prices, now)
        cex == prices[Binance]
        dex == prices[Hyperliquid]
    IN  (/\ s.valid
         /\ \A e \in Exchanges : prices[e].bid_price > 0 /\ prices[e].ask_price > 0)
        => /\ f.valid
           /\ f.a <= s.a * FeeScale
           /\ f.b <= s.b * FeeScale
           /\ s.a * FeeScale - f.a
                 = dex.bid_price * hyper_maker_fee + cex.ask_price * binance_taker_fee
           /\ s.b * FeeScale - f.b
                 = cex.bid_price * binance_maker_fee + dex.ask_price * hyper_taker_fee

\* Books pushed on both venues this second, a positive raw spread in
\* direction A whose net spread is negative.
C35_Witness ==
    /\ last_call.op = "push_neworder_book"
    /\ get_spread(prices, now).valid
    /\ get_spread(prices, now).a > 0
    /\ get_spread_with_fees(prices, now).valid
    /\ get_spread_with_fees(prices, now).a < 0
    /\ get_spread_with_fees(prices, now).b < get_spread(prices, now).b * FeeScale

\* C36: no permanent stall.  With every placement accepted, sweeps made
\* again and again and every order's terminal message handed to the
\* handler, a machine in a Leg state eventually is in OpenCondition or
\* CloseCondition again (or the venues of the model have run out of ids for
\* the order the handler wants to place).
C36_NoPermanentStall ==
    (sm.current_state \in LegStates)
    ~> \/ sm.current_state \in ConditionStates
       \/ \E exchange \in Exchanges : DeliveryBlocked(exchange)

\* ------------------------------------------------------------------ C37
\* The last call had an order accepted by a venue.
PlacedAccepted == \E i \in DOMAIN last_call.log.placed : last_call.log.placed[i].ok

\* C37: a terminal event retires the active order.  After the handler has
\* processed ALL_traded, PARTIAL_filled_canceled or ALL_canceled for the
\* order whose id is active_order_id, in any Leg state, active_order_id is
\* no longer that order's id: it is the id of an order this call placed, or
\* the machine is in a Condition state with active_order_id None.
C37_TerminalEventRetires ==
    (Matched /\ last_call.pre.current_state \in LegStates
             /\ last_call.event_type \in EventTypes)
    => /\ sm.active_order_id # last_call.order_id
       /\ \/ /\ sm.active_order_id # None
             /\ IsOrder(sm.active_order_id)
             /\ PlacedAccepted
          \/ sm.current_state \in ConditionStates /\ sm.active_order_id = None

\* ------------------------------------------------------------------ C38
\* The Leg-1 order of the running episode: the last order placed on the DEX
\* (check_and_execute_open / check_and_execute_close place nothing else
\* there); 0 before the first one.
EpisodeLeg1 ==
    LET dex == {i \in DOMAIN orders : orders[i].exchange = Hyperliquid}
    IN  IF dex = {} THEN 0 ELSE CHOOSE i \in dex : \A j \in dex : j <= i

\* The Leg-2 orders of the running episode: the CEX orders placed since
\* (_execute_leg2_chase_step is the only code that places on the CEX).
EpisodeLeg2 ==
    {i \in DOMAIN orders : orders[i].exchange = Binance /\ i > EpisodeLeg1}

\* The quantity filled over the Leg-2 orders of the episode among the first
\* n orders.
RECURSIVE HedgedUpTo(_)
HedgedUpTo(n) ==
    IF n = 0 THEN 0
    ELSE HedgedUpTo(n - 1) + (IF n \in EpisodeLeg2 THEN orders[n].cum ELSE 0)

\* C38: no over-hedge across the Leg-2 orders of an episode.  While the
\* machine is in a Leg-2 state, the quantity filled over all Leg-2 orders of
\* the episode is at most leg1_filled_qty, and every Leg-2 order was placed
\* for leg1_filled_qty less what the earlier Leg-2 orders of the episode
\* filled.
C38_NoOverHedge ==
    (sm.current_state \in Leg2States)
    => /\ HedgedUpTo(Len(orders)) <= sm.leg1_filled_qty
       /\ \A i \in EpisodeLeg2 :
             orders[i].qty = sm.leg1_filled_qty - HedgedUpTo(i - 1)

\* ------------------------------------------------------------------ C39
\* The net quantity filled on a venue among the first n orders, the orders
\* of side plus counted positive and the others negative.
RECURSIVE NetFilledUpTo(_, _, _)
NetFilledUpTo(exchange, plus, n) ==
    IF n = 0 THEN 0
    ELSE NetFilledUpTo(exchange, plus, n - 1)
         + (IF orders[n].exchange # exchange THEN 0
            ELSE IF orders[n].side = plus THEN orders[n].cum
            ELSE 0 - orders[n].cum)

\* Bought less sold on the DEX, sold less bought on the CEX, since start.
NetDex == NetFilledUpTo(Hyperliquid, "BUY", Len(orders))
NetCex == NetFilledUpTo(Binance, "SELL", Len(orders))

\* C39: hedged at rest.  Whenever the machine is in OpenCondition or
\* CloseCondition, the net quantity filled on the DEX since start equals the
\* net quantity filled on the CEX and equals the change of current_position
\* (0 at construction): no unhedged exposure is carried between episodes.
C39_HedgedAtRest ==
    (started = "running" /\ sm.current_state \in ConditionStates)
    => /\ NetDex = NetCex
       /\ NetDex = sm.current_position - sm0.current_position

\* ------------------------------------------------------------------ C40
\* C40: the startup reconciler fails closed.  When the position query of
\* either venue failed or could not be made, Req_Investment_position does
\* not take that venue for flat: it answers False, sets no state, and the
\* engine does not start.
C40_ReconcilerFailsClosed ==
    (IsReconcile /\ (~last_call.binance_ok \/ ~last_call.hyper_ok))
    => /\ ~last_call.valid
       /\ last_call.initial_state = None
       /\ started = "refused"

====
